---------------------------- MODULE Spec2Model ----------------------------
(***************************************************************************)
(* Model of the spesh statistics aggregator of MoarVM (stats.c): the       *)
(* statistics tree kept per static frame, the simulated call stack that    *)
(* MVM_spesh_stats_update rebuilds from a correlation-id tagged log, and   *)
(* the handling of every log event kind.                                   *)
(*                                                                         *)
(* Indices are 1-based here and 0-based in the C code; index 0 stands for  *)
(* the C code's NULL / "not found".                                        *)
(***************************************************************************)
EXTENDS Integers, Sequences, FiniteSets, TLC

(***************************************************************************)
(* Bounds of the model.                                                    *)
(***************************************************************************)
MaxLog == 3          \* Spec: log entries over all update calls
MaxUpdates == 2      \* Spec: update calls
MaxVersion == 1      \* Spec: largest value of the global version counter
MaxStack == 3        \* Spec, SpecTuple, SpecCall: depth of the sim stack
TupleLog == 4        \* SpecTuple: log entries
CallLog == 5         \* SpecCall: log entries
DepthLog == 10       \* SpecDepth: log entries
DepthStack == 5      \* SpecDepth: depth of the sim stack
EventLog == 4        \* SpecEvents: log entries over all update calls
EventUpdates == 2    \* SpecEvents: update calls
KeysLog == 8         \* SpecKeys: log entries
RefsLog == 9         \* SpecRefs: log entries
EmptyLog == 3        \* SpecEmpty: log entries over all update calls
EmptyUpdates == 3    \* SpecEmpty: update calls
EmptyVersion == 2    \* SpecEmpty: largest value of the global version counter
HashBits == 5        \* hash tables: width of a hash code in bits
PtrOps == 5          \* SpecPtr: operations on the table
ChainOps == 6        \* SpecChain: operations on the table
FillOps == 3         \* SpecFill: operations on the table once it is filled
ImplicitLog == 5     \* SpecImplicit: log entries
DrainLog == 4        \* SpecDrain: log entries
ParamLog == 3        \* SpecParam: log entries
CountLog == 7        \* SpecCount: log entries
OwnLog == 6          \* SpecOwn: log entries
\* 255 in MoarVM, for hash codes of 32 and 64 bits; scaled down with HashBits.
MVM_HASH_MAX_PROBE_DISTANCE == 4
AgeLog == 3          \* SpecAge: log entries over all update calls
AgeUpdates == 3      \* SpecAge: update calls
AgeVersion == 4      \* SpecAge: largest value of the global version counter
\* MVM_SPESH_STATS_MAX_AGE is a tunable set outside stats.c; the properties
\* are stated for whatever value it has, and checked for this one.
MVM_SPESH_STATS_MAX_AGE == 1

(***************************************************************************)
(* Handles.  NULL is the null pointer.  Static frames, callsites, types    *)
(* and values are opaque handles; the few accessors the code uses on them  *)
(* are the operators below.                                                *)
(***************************************************************************)
NULL == "NULL"

SFs == {"A", "B"}

\* Callsite descriptors: C0 passes one native int, C1 one object, C2 one
\* positional and one named object, C3 a positional object, a positional
\* int, a named int and a named object.
Callsites == {"C0", "C1", "C2", "C3"}

ARG_OBJ == "obj"

arg_flags(cs) ==
    CASE cs = "C0" -> <<"int">>
      [] cs = "C1" -> <<ARG_OBJ>>
      [] cs = "C2" -> <<ARG_OBJ, ARG_OBJ>>
      [] cs = "C3" -> <<ARG_OBJ, "int", "int", ARG_OBJ>>
      [] OTHER -> <<>>

flag_count(cs) == Len(arg_flags(cs))

num_pos(cs) ==
    CASE cs = "C0" -> 1
      [] cs = "C1" -> 1
      [] cs = "C2" -> 1
      [] cs = "C3" -> 2
      [] OTHER -> 0

\* Types: T and T2 are plain types, TC is a container type.
Types == {"T", "TC", "T2"}

container_spec(type) == type = "TC"

\* Values seen by INVOKE: the code objects of the static frames, and some
\* other object that is not a code object.
CodeOf(sf) == "Code" \o sf

Values == {CodeOf(sf) : sf \in SFs} \cup {"Obj"}

\* lic && IS_CONCRETE(lic) && REPR(lic)->ID == MVM_REPR_ID_MVMCode
IsConcreteCode(v) == \E sf \in SFs : v = CodeOf(sf)

\* ((MVMCode *)lic)->body.sf
CodeSf(v) == CHOOSE sf \in SFs : v = CodeOf(sf)

(***************************************************************************)
(* The statistics tree.                                                    *)
(***************************************************************************)
\* One zeroed MVMSpeshStatsType.
ZeroType ==
    [type |-> NULL, type_concrete |-> 0,
     decont_type |-> NULL, decont_type_concrete |-> 0]

\* MVM_calloc(cs->flag_count, sizeof(MVMSpeshStatsType)); <<>> for no callsite.
NewArgTypes(cs) ==
    IF cs = NULL THEN <<>> ELSE [k \in 1..flag_count(cs) |-> ZeroType]

\* spesh_stats == NULL.
NoStats ==
    [present |-> FALSE, hits |-> 0, osr_hits |-> 0, last_update |-> 0,
     by_callsite |-> <<>>, static_values |-> <<>>]

\* stats_for allocating fresh stats at every call.
stats_for_Fresh(ss) == [NoStats EXCEPT !.present = TRUE]

\* Gets the statistics for a static frame, creating them if needed.
stats_for(ss) ==
    IF ss.present THEN ss ELSE [NoStats EXCEPT !.present = TRUE]

\* Index of the first ByCallsite with this cs, 0 if there is none.
FindCallsite(by_callsite, cs) ==
    IF \E k \in DOMAIN by_callsite : by_callsite[k].cs = cs
    THEN CHOOSE k \in DOMAIN by_callsite :
            /\ by_callsite[k].cs = cs
            /\ \A j \in 1..(k - 1) : by_callsite[j].cs # cs
    ELSE 0

\* Gets the stats by callsite, adding it if it's missing.
by_callsite_idx(ss, cs) ==
    LET found == FindCallsite(ss.by_callsite, cs)
    IN  IF found # 0
        THEN [ss |-> ss, idx |-> found]
        ELSE [ss |-> [ss EXCEPT !.by_callsite =
                        Append(@, [cs |-> cs, hits |-> 0, osr_hits |-> 0,
                                   max_depth |-> 0, by_type |-> <<>>])],
              idx |-> Len(ss.by_callsite) + 1]

\* incomplete_type_tuple taking every tuple for complete.
incomplete_type_tuple_Never(cs, arg_types) == FALSE

\* Checks if a type tuple is incomplete.
incomplete_type_tuple(cs, arg_types) ==
    \E k \in 1..flag_count(cs) :
        /\ arg_flags(cs)[k] = ARG_OBJ
        /\ \/ arg_types[k].type = NULL
           \/ /\ arg_types[k].type_concrete # 0
              /\ container_spec(arg_types[k].type)
              /\ arg_types[k].decont_type = NULL

\* Returns true if the callsite has no object arguments.
cs_without_object_args(cs) ==
    \A k \in 1..flag_count(cs) : arg_flags(cs)[k] # ARG_OBJ

\* FindByType with the memcmp test inverted: first index that differs.
FindByType_Inverted(by_type_seq, arg_types) ==
    IF \E k \in DOMAIN by_type_seq : by_type_seq[k].arg_types # arg_types
    THEN CHOOSE k \in DOMAIN by_type_seq :
            /\ by_type_seq[k].arg_types # arg_types
            /\ \A j \in 1..(k - 1) : by_type_seq[j].arg_types = arg_types
    ELSE 0

\* memcmp over the tuples of the by_type array: first index that equals.
FindByType(by_type_seq, arg_types) ==
    IF \E k \in DOMAIN by_type_seq : by_type_seq[k].arg_types = arg_types
    THEN CHOOSE k \in DOMAIN by_type_seq :
            /\ by_type_seq[k].arg_types = arg_types
            /\ \A j \in 1..(k - 1) : by_type_seq[j].arg_types # arg_types
    ELSE 0

\* Gets the stats by type, adding it if it's missing.  idx 0 is NULL.
by_type(ss, callsite_idx, arg_types) ==
    LET css == ss.by_callsite[callsite_idx]
        cs == css.cs
    IN  IF cs = NULL \/ cs_without_object_args(cs)
        THEN [ss |-> ss, idx |-> 0]
        ELSE IF incomplete_type_tuple(cs, arg_types)
        THEN [ss |-> ss, idx |-> 0]
        ELSE LET found == FindByType(css.by_type, arg_types)
             IN  IF found # 0
                 THEN [ss |-> ss, idx |-> found]
                 ELSE [ss |-> [ss EXCEPT !.by_callsite[callsite_idx].by_type =
                                 Append(@, [arg_types |-> arg_types, hits |-> 0,
                                            osr_hits |-> 0, max_depth |-> 0,
                                            by_offset |-> <<>>])],
                       idx |-> Len(css.by_type) + 1]

FindOffset(by_offset_seq, bytecode_offset) ==
    IF \E k \in DOMAIN by_offset_seq :
            by_offset_seq[k].bytecode_offset = bytecode_offset
    THEN CHOOSE k \in DOMAIN by_offset_seq :
            /\ by_offset_seq[k].bytecode_offset = bytecode_offset
            /\ \A j \in 1..(k - 1) :
                    by_offset_seq[j].bytecode_offset # bytecode_offset
    ELSE 0

\* Get the stats by offset entry, adding it if it's missing.
by_offset(tss, bytecode_offset) ==
    LET found == FindOffset(tss.by_offset, bytecode_offset)
    IN  IF found # 0
        THEN [tss |-> tss, idx |-> found]
        ELSE [tss |-> [tss EXCEPT !.by_offset =
                         Append(@, [bytecode_offset |-> bytecode_offset,
                                    types |-> <<>>, values |-> <<>>,
                                    type_tuples |-> <<>>])],
              idx |-> Len(tss.by_offset) + 1]

FindTypeCount(types, type, concrete) ==
    IF \E k \in DOMAIN types :
            types[k].type = type /\ types[k].type_concrete = concrete
    THEN CHOOSE k \in DOMAIN types :
            /\ types[k].type = type /\ types[k].type_concrete = concrete
            /\ \A j \in 1..(k - 1) :
                    ~(types[j].type = type /\ types[j].type_concrete = concrete)
    ELSE 0

\* Adds/increments the count of a certain type seen at the given offset.
add_type_at_offset(oss, type, concrete) ==
    LET found == FindTypeCount(oss.types, type, concrete)
    IN  IF found # 0
        THEN [oss EXCEPT !.types[found].count = @ + 1]
        ELSE [oss EXCEPT !.types =
                Append(@, [type |-> type, type_concrete |-> concrete,
                           count |-> 1])]

\* FindValueCount with the loop stopping one entry early.
FindValueCount_SkipLast(values, value) ==
    IF \E k \in 1..(Len(values) - 1) : values[k].value = value
    THEN CHOOSE k \in 1..(Len(values) - 1) :
            /\ values[k].value = value
            /\ \A j \in 1..(k - 1) : values[j].value # value
    ELSE 0

\* The loop of add_value_at_offset: first index with this value, 0 for none.
FindValueCount(values, value) ==
    IF \E k \in DOMAIN values : values[k].value = value
    THEN CHOOSE k \in DOMAIN values :
            /\ values[k].value = value
            /\ \A j \in 1..(k - 1) : values[j].value # value
    ELSE 0

\* A variant of add_value_at_offset that counts a value anew each time it
\* is seen, keeping no running count.
add_value_at_offset_Restart(oss, value) ==
    LET found == FindValueCount(oss.values, value)
    IN  IF found # 0
        THEN [oss EXCEPT !.values[found].count = 1]
        ELSE [oss EXCEPT !.values = Append(@, [value |-> value, count |-> 1])]

\* Adds/increments the count of a certain value seen at the given offset.
add_value_at_offset(oss, value) ==
    LET found == FindValueCount(oss.values, value)
    IN  IF found # 0
        THEN [oss EXCEPT !.values[found].count = @ + 1]
        ELSE [oss EXCEPT !.values = Append(@, [value |-> value, count |-> 1])]

FindTypeTuple(type_tuples, info) ==
    IF \E k \in DOMAIN type_tuples :
            type_tuples[k].cs = info.cs /\ type_tuples[k].arg_types = info.arg_types
    THEN CHOOSE k \in DOMAIN type_tuples :
            /\ type_tuples[k].cs = info.cs
            /\ type_tuples[k].arg_types = info.arg_types
            /\ \A j \in 1..(k - 1) :
                    ~(type_tuples[j].cs = info.cs
                      /\ type_tuples[j].arg_types = info.arg_types)
    ELSE 0

\* Adds/increments the count of a type tuple seen at the given offset.
add_type_tuple_at_offset(oss, info) ==
    LET found == FindTypeTuple(oss.type_tuples, info)
    IN  IF found # 0
        THEN [oss EXCEPT !.type_tuples[found].count = @ + 1]
        ELSE [oss EXCEPT !.type_tuples =
                Append(@, [cs |-> info.cs, arg_types |-> info.arg_types,
                           count |-> 1])]

(***************************************************************************)
(* The simulated call stack.  A state st of the aggregation is the record  *)
(* [stats, frames, depth, panic]: the stats of every static frame, the     *)
(* frames of the SimStack (frames[Len] is the top, Len is sims->used),     *)
(* sims->depth, and whether MVM_panic was reached.                         *)
(*                                                                         *)
(* A C function whose result is used several times is split in two         *)
(* operators: the second takes the result as a parameter.                  *)
(***************************************************************************)
\* The flag bit tested in e->type.flags and e->param.flags (the lowest bit).
MVM_SPESH_LOG_TYPE_FLAG_CONCRETE == 1

\* flags & MVM_SPESH_LOG_TYPE_FLAG_CONCRETE
ConcreteBit(flags) == flags % (2 * MVM_SPESH_LOG_TYPE_FLAG_CONCRETE)

\* Initializes the stack simulation.
sim_stack_init(stats_map) ==
    [stats |-> stats_map, frames |-> <<>>, depth |-> 0, panic |-> FALSE]

\* Pushes an entry onto the stack frame model.
sim_stack_push(st, sf, cid, callsite_idx) ==
    [st EXCEPT
        !.frames = Append(@,
            [sf |-> sf, cid |-> cid, callsite_idx |-> callsite_idx,
             arg_types |-> NewArgTypes(st.stats[sf].by_callsite[callsite_idx].cs),
             offset_logs |-> <<>>, call_type_info |-> <<>>, osr_hits |-> 0,
             last_invoke_offset |-> 0, last_invoke_code |-> NULL]),
        !.depth = @ + 1]

\* Adds an entry to a sim frame's callsite type info list.
add_sim_call_type_info(simf, bytecode_offset, cs, arg_types) ==
    [simf EXCEPT !.call_type_info =
        Append(@, [bytecode_offset |-> bytecode_offset, cs |-> cs,
                   arg_types |-> arg_types])]

\* IncorporateAt without the case MVM_SPESH_LOG_RETURN.
IncorporateAt_NoReturn(r, e) ==
    IF e.kind = "TYPE"
    THEN [r.tss EXCEPT !.by_offset[r.idx] =
            add_type_at_offset(@, e.type, ConcreteBit(e.flags))]
    ELSE IF e.kind = "INVOKE"
    THEN [r.tss EXCEPT !.by_offset[r.idx] = add_value_at_offset(@, e.value)]
    ELSE r.tss

\* The switch of sim_stack_pop on the kind of a buffered log entry e, r the
\* result of by_offset for its offset.
IncorporateAt(r, e) ==
    IF e.kind \in {"TYPE", "RETURN"}
    THEN [r.tss EXCEPT !.by_offset[r.idx] =
            add_type_at_offset(@, e.type, ConcreteBit(e.flags))]
    ELSE IF e.kind = "INVOKE"
    THEN [r.tss EXCEPT !.by_offset[r.idx] = add_value_at_offset(@, e.value)]
    ELSE r.tss

\* One buffered offset log folded into a ByType.
IncorporateLog(tss, e) == IncorporateAt(by_offset(tss, e.bytecode_offset), e)

\* The loop over simf->offset_logs, from entry k on.
RECURSIVE IncorporateLogs(_, _, _)
IncorporateLogs(tss, logs, k) ==
    IF k > Len(logs) THEN tss
    ELSE IncorporateLogs(IncorporateLog(tss, logs[k]), logs, k + 1)

\* A buffered call info folded into the ByOffset by_offset found for it.
IncorporateCallInfoAt(r, info) ==
    [r.tss EXCEPT !.by_offset[r.idx] = add_type_tuple_at_offset(@, info)]

\* One buffered call info folded into a ByType.
IncorporateCallInfo(tss, info) ==
    IncorporateCallInfoAt(by_offset(tss, info.bytecode_offset), info)

\* The loop over simf->call_type_info, from entry k on.
RECURSIVE IncorporateCallInfos(_, _, _)
IncorporateCallInfos(tss, infos, k) ==
    IF k > Len(infos) THEN tss
    ELSE IncorporateCallInfos(IncorporateCallInfo(tss, infos[k]), infos, k + 1)

\* CallsiteDepth comparing and storing the depth below the frame.
CallsiteDepth_Below(ss, ci, frame_depth) ==
    IF frame_depth - 1 > ss.by_callsite[ci].max_depth
    THEN [ss EXCEPT !.by_callsite[ci].max_depth = frame_depth - 1]
    ELSE ss

\* if (frame_depth > simf->ss->by_callsite[simf->callsite_idx].max_depth) ...
CallsiteDepth(ss, ci, frame_depth) ==
    IF frame_depth > ss.by_callsite[ci].max_depth
    THEN [ss EXCEPT !.by_callsite[ci].max_depth = frame_depth]
    ELSE ss

\* PopCallsiteLevel without simf->ss->osr_hits += simf->osr_hits.
PopCallsiteLevel_CallsiteOnly(ss, simf, frame_depth) ==
    CallsiteDepth(
        IF simf.osr_hits # 0
        THEN [ss EXCEPT !.by_callsite[simf.callsite_idx].osr_hits =
                            @ + simf.osr_hits]
        ELSE ss,
        simf.callsite_idx, frame_depth)

\* Add OSR hits at callsite level and update depth (first half of the pop).
PopCallsiteLevel(ss, simf, frame_depth) ==
    CallsiteDepth(
        IF simf.osr_hits # 0
        THEN [ss EXCEPT !.osr_hits = @ + simf.osr_hits,
                        !.by_callsite[simf.callsite_idx].osr_hits =
                            @ + simf.osr_hits]
        ELSE ss,
        simf.callsite_idx, frame_depth)

\* A variant of TypeHitsDepth that counts the popped frame twice.
TypeHitsDepth_HitTwice(tss, osr_hits, frame_depth) ==
    [tss EXCEPT !.hits = @ + 2,
                !.osr_hits = @ + osr_hits,
                !.max_depth = IF frame_depth > @ THEN frame_depth ELSE @]

\* Incorporate OSR hits and bump max depth.
TypeHitsDepth(tss, osr_hits, frame_depth) ==
    [tss EXCEPT !.hits = @ + 1,
                !.osr_hits = @ + osr_hits,
                !.max_depth = IF frame_depth > @ THEN frame_depth ELSE @]

\* Incorporate the buffered data, OSR hits and depth into the resolved ByType.
PopTypeLevel(tss, simf, frame_depth) ==
    TypeHitsDepth(
        IncorporateCallInfos(IncorporateLogs(tss, simf.offset_logs, 1),
                             simf.call_type_info, 1),
        simf.osr_hits, frame_depth)

\* PopCallerInfo without the comparison of the static frames.
PopCallerInfo_AnyCallee(frames, simf, cs, arg_types) ==
    IF Len(frames) = 0 THEN frames
    ELSE [frames EXCEPT ![Len(frames)] =
            add_sim_call_type_info(@, @.last_invoke_offset, cs, arg_types)]

\* If the caller's last invocation matches the frame just popped, log the
\* type tuple against the callsite.
PopCallerInfo(frames, simf, cs, arg_types) ==
    IF Len(frames) = 0 THEN frames
    ELSE IF /\ IsConcreteCode(frames[Len(frames)].last_invoke_code)
            /\ CodeSf(frames[Len(frames)].last_invoke_code) = simf.sf
         THEN [frames EXCEPT ![Len(frames)] =
                 add_sim_call_type_info(@, @.last_invoke_offset, cs, arg_types)]
         ELSE frames

\* The pop of frame simf of st once its ByType is incorporated: tss is the
\* ByType with the frame's data, at index r.idx of the by_type array in r.ss.
PopStore(st, simf, r, tss) ==
    [st EXCEPT
        !.stats[simf.sf] =
            [r.ss EXCEPT !.by_callsite[simf.callsite_idx].by_type[r.idx] = tss],
        !.frames = PopCallerInfo(SubSeq(st.frames, 1, Len(st.frames) - 1), simf,
                                 r.ss.by_callsite[simf.callsite_idx].cs,
                                 tss.arg_types),
        !.depth = @ - 1]

\* The pop of frame simf of st, r the result of by_type for it.
PopWith(st, simf, r) ==
    IF r.idx = 0
    THEN [st EXCEPT !.stats[simf.sf] = r.ss,
                    !.frames = SubSeq(st.frames, 1, Len(st.frames) - 1),
                    !.depth = @ - 1]
    ELSE PopStore(st, simf, r,
            PopTypeLevel(r.ss.by_callsite[simf.callsite_idx].by_type[r.idx],
                         simf, st.depth))

\* The pop of the top frame simf of st.
PopFrame(st, simf) ==
    PopWith(st, simf,
            by_type(PopCallsiteLevel(st.stats[simf.sf], simf, st.depth),
                    simf.callsite_idx, simf.arg_types))

\* Pops the top frame from the sim stack.
sim_stack_pop(st) ==
    IF Len(st.frames) = 0
    THEN [st EXCEPT !.panic = TRUE]
    ELSE PopFrame(st, st.frames[Len(st.frames)])

\* sim_stack_pop, n times.
RECURSIVE PopN(_, _)
PopN(st, n) == IF n <= 0 THEN st ELSE PopN(sim_stack_pop(st), n - 1)

\* FoundAt with the search running from the bottom of the stack upwards.
FoundAt_Lowest(frames, cid) ==
    IF \E k \in DOMAIN frames : frames[k].cid = cid
    THEN CHOOSE k \in DOMAIN frames :
            /\ frames[k].cid = cid
            /\ \A j \in 1..(k - 1) : frames[j].cid # cid
    ELSE 0

\* The index the search of sim_stack_find stops at: the topmost frame with
\* this correlation ID, 0 if there is none.
FoundAt(frames, cid) ==
    IF \E k \in DOMAIN frames : frames[k].cid = cid
    THEN CHOOSE k \in DOMAIN frames :
            /\ frames[k].cid = cid
            /\ \A j \in (k + 1)..Len(frames) : frames[j].cid # cid
    ELSE 0

\* FindWith falling back to the top frame when the search finds nothing.
FindWith_Top(st, found_at) ==
    IF found_at = 0
    THEN [st |-> st, idx |-> Len(st.frames)]
    ELSE [st |-> PopN(st, Len(st.frames) - found_at), idx |-> found_at]

\* sim_stack_find once the search has stopped at found_at.
FindWith(st, found_at) ==
    IF found_at = 0
    THEN [st |-> st, idx |-> 0]
    ELSE [st |-> PopN(st, Len(st.frames) - found_at), idx |-> found_at]

\* Gets the simulation stack frame for the specified correlation ID, popping
\* the frames above it.  idx 0 is NULL.
sim_stack_find(st, cid) == FindWith(st, FoundAt(st.frames, cid))

\* sim_stack_destroy with the loop as do { sim_stack_pop } while (sims->used).
sim_stack_destroy_DoWhile(st) == PopN(sim_stack_pop(st), Len(st.frames) - 1)

\* sim_stack_destroy freeing the frames without popping them.
sim_stack_destroy_Discard(st) == [st EXCEPT !.frames = <<>>, !.depth = 0]

\* Destroys the stack simulation.
sim_stack_destroy(st) == PopN(st, Len(st.frames))

\* C's integer division, which truncates toward zero.
CDiv(a, b) == IF a >= 0 THEN a \div b ELSE -((-a) \div b)

\* FlagIdx taking a named argument's index for two flags per argument.
FlagIdx_NoHalving(cs, arg_idx) ==
    IF arg_idx < num_pos(cs)
    THEN arg_idx
    ELSE num_pos(cs) + ((arg_idx - 1) - num_pos(cs))

\* idx < cs->num_pos ? idx : cs->num_pos + (((idx - 1) - cs->num_pos) / 2)
FlagIdx(cs, arg_idx) ==
    IF arg_idx < num_pos(cs)
    THEN arg_idx
    ELSE num_pos(cs) + CDiv((arg_idx - 1) - num_pos(cs), 2)

\* param_type for callsite cs once flag_idx is computed.
ParamSlot(cs, flag_idx) ==
    IF flag_idx >= flag_count(cs) THEN -1
    ELSE IF arg_flags(cs)[flag_idx + 1] = ARG_OBJ THEN flag_idx + 1
    ELSE 0

\* Gets the parameter type slot from a simulation frame: the index of the
\* slot in arg_types, 0 for NULL, -1 for the panic.
param_type(cs, arg_idx) ==
    IF cs = NULL THEN 0 ELSE ParamSlot(cs, FlagIdx(cs, arg_idx))

\* add_static_value storing the value also when the offset has an entry.
add_static_value_Last(ss, bytecode_offset, value) ==
    IF \E k \in DOMAIN ss.static_values :
            ss.static_values[k].bytecode_offset = bytecode_offset
    THEN [ss EXCEPT !.static_values =
            [k \in DOMAIN @ |->
                IF @[k].bytecode_offset = bytecode_offset
                THEN [@[k] EXCEPT !.value = value] ELSE @[k]]]
    ELSE [ss EXCEPT !.static_values =
            Append(@, [bytecode_offset |-> bytecode_offset, value |-> value])]

\* Records a static value for a frame, unless it's already in the log.
add_static_value(ss, bytecode_offset, value) ==
    IF \E k \in DOMAIN ss.static_values :
            ss.static_values[k].bytecode_offset = bytecode_offset
    THEN ss
    ELSE [ss EXCEPT !.static_values =
            Append(@, [bytecode_offset |-> bytecode_offset, value |-> value])]

(***************************************************************************)
(* MVM_spesh_stats_cleanup.  c is the state of its loop: the stats of      *)
(* every static frame, the array check_frames and insert_pos.              *)
(***************************************************************************)
\* MVM_spesh_stats_destroy(tc, ss); spesh->body.spesh_stats = NULL;
DestroyStats(stats_map, sf) == [stats_map EXCEPT ![sf] = NoStats]

\* TooOld with >= for >.
TooOld_AtLimit(ss, ver) == ver - ss.last_update >= MVM_SPESH_STATS_MAX_AGE

\* tc->instance->spesh_stats_version - ss->last_update > MAX_AGE.  The
\* counter never decreases, so the unsigned difference does not wrap.
TooOld(ss, ver) == ver - ss.last_update > MVM_SPESH_STATS_MAX_AGE

\* The body of the loop for check_frames[i] = sf.
CleanupFrame(c, sf, ver) ==
    IF ~c.stats[sf].present THEN c
    ELSE IF TooOld(c.stats[sf], ver)
    THEN [c EXCEPT !.stats = DestroyStats(@, sf)]
    ELSE [c EXCEPT !.check_frames[c.insert_pos + 1] = sf,
                   !.insert_pos = @ + 1]

\* The loop, from element i on.
RECURSIVE CleanupLoop(_, _, _, _)
CleanupLoop(c, elems, i, ver) ==
    IF i > elems THEN c
    ELSE CleanupLoop(CleanupFrame(c, c.check_frames[i], ver), elems, i + 1, ver)

\* MVM_repr_pos_set_elems(tc, check_frames, insert_pos)
SetElems(c) ==
    [stats |-> c.stats, check_frames |-> SubSeq(c.check_frames, 1, c.insert_pos)]

\* Takes an array of frames we recently updated the stats in.  If they
\* weren't updated in a while, clears them out.
MVM_spesh_stats_cleanup(stats_map, check_frames, ver) ==
    SetElems(CleanupLoop([stats |-> stats_map, check_frames |-> check_frames,
                          insert_pos |-> 0],
                         Len(check_frames), 1, ver))

(***************************************************************************)
(* Log events.  One record shape for every kind; the fields a kind does    *)
(* not carry are NULL / 0.  In the handlers f is the result of             *)
(* sim_stack_find for the event's correlation ID.                          *)
(***************************************************************************)
Event(kind, id, sf, cs, arg_idx, type, flags, bytecode_offset, value) ==
    [kind |-> kind, id |-> id, sf |-> sf, cs |-> cs, arg_idx |-> arg_idx,
     type |-> type, flags |-> flags, bytecode_offset |-> bytecode_offset,
     value |-> value]

\* NeedsPush without the comparison of versions.
NeedsPush_Always(ss, ver) == TRUE

\* if (ss->last_update != tc->instance->spesh_stats_version)
NeedsPush(ss, ver) == ss.last_update # ver

\* CountEntry without ss->by_callsite[callsite_idx].hits++.
CountEntry_FrameOnly(r) ==
    [ss |-> [r.ss EXCEPT !.hits = @ + 1], idx |-> r.idx]

\* ss->hits++ and ss->by_callsite[callsite_idx].hits++, r the result of
\* by_callsite_idx.
CountEntry(r) ==
    [ss |-> [r.ss EXCEPT !.hits = @ + 1, !.by_callsite[r.idx].hits = @ + 1],
     idx |-> r.idx]

\* case MVM_SPESH_LOG_ENTRY for stats ss0 of e.sf.
EntryWith(st, ver, sink, e, ss0, r) ==
    [st |-> sim_stack_push([st EXCEPT !.stats[e.sf] = r.ss], e.sf, e.id, r.idx),
     sink |-> IF NeedsPush(ss0, ver) THEN Append(sink, e.sf) ELSE sink]

\* The stats of e.sf with last_update set, their hits counted.
EntryStats(ss0, ver, cs) ==
    CountEntry(by_callsite_idx(
        IF NeedsPush(ss0, ver) THEN [ss0 EXCEPT !.last_update = ver] ELSE ss0,
        cs))

\* case MVM_SPESH_LOG_ENTRY.  Gives the new state and the new sink.
HandleEntry(st, ver, sink, e) ==
    EntryWith(st, ver, sink, e, stats_for(st.stats[e.sf]),
              EntryStats(stats_for(st.stats[e.sf]), ver, e.cs))

\* The write of a PARAMETER or PARAMETER_DECONT entry into slot.
ParameterWrite(st, idx, slot, e) ==
    IF slot = -1 THEN [st EXCEPT !.panic = TRUE]
    ELSE IF slot = 0 THEN st
    ELSE IF e.kind = "PARAMETER"
    THEN [st EXCEPT !.frames[idx].arg_types[slot] =
            [@ EXCEPT !.type = e.type, !.type_concrete = ConcreteBit(e.flags)]]
    ELSE [st EXCEPT !.frames[idx].arg_types[slot] =
            [@ EXCEPT !.decont_type = e.type,
                      !.decont_type_concrete = ConcreteBit(e.flags)]]

\* The callsite of the ByCallsite of frame idx of st.
FrameCallsite(st, idx) ==
    st.stats[st.frames[idx].sf].by_callsite[st.frames[idx].callsite_idx].cs

ParameterAt(f, e) ==
    IF f.idx = 0 THEN f.st
    ELSE ParameterWrite(f.st, f.idx,
                        param_type(FrameCallsite(f.st, f.idx), e.arg_idx), e)

\* case MVM_SPESH_LOG_PARAMETER / MVM_SPESH_LOG_PARAMETER_DECONT.
HandleParameter(st, e) == ParameterAt(sim_stack_find(st, e.id), e)

\* What a sim frame keeps of a log entry it buffers.
OffsetLog(e, bytecode_offset) ==
    [kind |-> e.kind, bytecode_offset |-> bytecode_offset, type |-> e.type,
     flags |-> e.flags, value |-> e.value]

\* OffsetLogAt counting the entry at once in the first ByType of the
\* frame's callsite, when there is one, instead of buffering it.
OffsetLogAt_Eager(f, e) ==
    IF f.idx = 0 THEN f.st
    ELSE IF Len(f.st.stats[f.st.frames[f.idx].sf]
                    .by_callsite[f.st.frames[f.idx].callsite_idx].by_type) > 0
    THEN [f.st EXCEPT
            !.stats[f.st.frames[f.idx].sf]
                .by_callsite[f.st.frames[f.idx].callsite_idx].by_type[1] =
                IncorporateLog(@, OffsetLog(e, e.bytecode_offset))]
    ELSE [f.st EXCEPT
            !.frames[f.idx].offset_logs =
                Append(@, OffsetLog(e, e.bytecode_offset))]

OffsetLogAt(f, e) ==
    IF f.idx = 0 THEN f.st
    ELSE IF e.kind = "INVOKE"
    THEN [f.st EXCEPT
            !.frames[f.idx].offset_logs =
                Append(@, OffsetLog(e, e.bytecode_offset)),
            !.frames[f.idx].last_invoke_offset = e.bytecode_offset,
            !.frames[f.idx].last_invoke_code = e.value]
    ELSE [f.st EXCEPT
            !.frames[f.idx].offset_logs =
                Append(@, OffsetLog(e, e.bytecode_offset))]

\* case MVM_SPESH_LOG_TYPE / MVM_SPESH_LOG_INVOKE.
HandleOffsetLog(st, e) == OffsetLogAt(sim_stack_find(st, e.id), e)

OsrAt(f) ==
    IF f.idx = 0 THEN f.st
    ELSE [f.st EXCEPT !.frames[f.idx].osr_hits = @ + 1]

\* case MVM_SPESH_LOG_OSR.
HandleOsr(st, e) == OsrAt(sim_stack_find(st, e.id))

StaticAt(f, e) ==
    IF f.idx = 0 THEN f.st
    ELSE [f.st EXCEPT !.stats[f.st.frames[f.idx].sf] =
            add_static_value(@, e.bytecode_offset, e.value)]

\* case MVM_SPESH_LOG_STATIC.
HandleStatic(st, e) == StaticAt(sim_stack_find(st, e.id), e)

\* ReturnOffset keeping the offset the RETURN entry was logged with.
ReturnOffset_Own(caller, e) == e.bytecode_offset

\* The offset a RETURN entry is filed under in the caller:
\* e->type.bytecode_offset = caller->last_invoke_offset
ReturnOffset(caller, e) == caller.last_invoke_offset

\* The part of case MVM_SPESH_LOG_RETURN after the pop: st1 is the state
\* after it, called_sf the static frame of the popped frame.
ReturnAttribute(st1, called_sf, e) ==
    IF e.type # NULL /\ Len(st1.frames) # 0
    THEN IF /\ IsConcreteCode(st1.frames[Len(st1.frames)].last_invoke_code)
            /\ called_sf = CodeSf(st1.frames[Len(st1.frames)].last_invoke_code)
         THEN [st1 EXCEPT !.frames[Len(st1.frames)] =
                 [@ EXCEPT !.offset_logs =
                     Append(@, OffsetLog(e,
                                ReturnOffset(st1.frames[Len(st1.frames)], e)))]]
         ELSE st1
    ELSE st1

\* ReturnAt without the test of what sim_stack_find returned.
ReturnAt_Unchecked(f, e) ==
    IF f.idx = 0 THEN sim_stack_pop(f.st)
    ELSE ReturnAttribute(sim_stack_pop(f.st), f.st.frames[f.idx].sf, e)

\* case MVM_SPESH_LOG_RETURN once sim_stack_find has returned f.
ReturnAt(f, e) ==
    IF f.idx = 0 THEN f.st
    ELSE ReturnAttribute(sim_stack_pop(f.st), f.st.frames[f.idx].sf, e)

\* case MVM_SPESH_LOG_RETURN.
HandleReturn(st, e) == ReturnAt(sim_stack_find(st, e.id), e)

\* The body of the loop of MVM_spesh_stats_update for one entry.
HandleEvent(st, ver, sink, e) ==
    CASE e.kind = "ENTRY" -> HandleEntry(st, ver, sink, e)
      [] e.kind \in {"PARAMETER", "PARAMETER_DECONT"} ->
            [st |-> HandleParameter(st, e), sink |-> sink]
      [] e.kind \in {"TYPE", "INVOKE"} ->
            [st |-> HandleOffsetLog(st, e), sink |-> sink]
      [] e.kind = "OSR" -> [st |-> HandleOsr(st, e), sink |-> sink]
      [] e.kind = "STATIC" -> [st |-> HandleStatic(st, e), sink |-> sink]
      [] e.kind = "RETURN" -> [st |-> HandleReturn(st, e), sink |-> sink]
      [] OTHER -> [st |-> st, sink |-> sink]

(***************************************************************************)
(* Write barriers.  A barrier is the pair <<sf, handle>>: the static frame *)
(* whose spesh data is named as the container, and the object it is made   *)
(* to reference.  Each operator gives the barriers a function issues when  *)
(* it is called in the given state.                                        *)
(***************************************************************************)
\* MVM_gc_write_barrier(tc, &(sf->body.spesh->common.header), &(handle->header)),
\* which does nothing for a null reference.
MVM_gc_write_barrier(sf, handle) ==
    IF handle = NULL THEN {} ELSE {<<sf, handle>>}

\* add_type_at_offset: MVM_ASSIGN_REF on the appended entry only.
TypeBarriers(oss, sf, type, concrete) ==
    IF FindTypeCount(oss.types, type, concrete) # 0 THEN {}
    ELSE MVM_gc_write_barrier(sf, type)

\* add_value_at_offset: MVM_ASSIGN_REF on the appended entry only.
ValueBarriers(oss, sf, value) ==
    IF FindValueCount(oss.values, value) # 0 THEN {}
    ELSE MVM_gc_write_barrier(sf, value)

\* add_type_tuple_at_offset: the loop of barriers over the copied tuple.
TupleBarriers(oss, sf, info) ==
    IF FindTypeTuple(oss.type_tuples, info) # 0 THEN {}
    ELSE UNION {MVM_gc_write_barrier(sf, info.arg_types[i].type)
                \cup MVM_gc_write_barrier(sf, info.arg_types[i].decont_type) :
                    i \in DOMAIN info.arg_types}

\* The barriers of the switch of sim_stack_pop on a buffered log entry e, r
\* the result of by_offset for its offset.
LogBarriersAt(r, sf, e) ==
    IF e.kind \in {"TYPE", "RETURN"}
    THEN TypeBarriers(r.tss.by_offset[r.idx], sf, e.type, ConcreteBit(e.flags))
    ELSE IF e.kind = "INVOKE"
    THEN ValueBarriers(r.tss.by_offset[r.idx], sf, e.value)
    ELSE {}

\* The barriers of the loop over simf->offset_logs, from entry k on.
RECURSIVE LogBarriers(_, _, _, _)
LogBarriers(tss, sf, logs, k) ==
    IF k > Len(logs) THEN {}
    ELSE LogBarriersAt(by_offset(tss, logs[k].bytecode_offset), sf, logs[k])
         \cup LogBarriers(IncorporateLog(tss, logs[k]), sf, logs, k + 1)

\* The barriers of one buffered call info, r the result of by_offset for it.
CallInfoBarriersAt(r, sf, info) ==
    TupleBarriers(r.tss.by_offset[r.idx], sf, info)

\* The barriers of the loop over simf->call_type_info, from entry k on.
RECURSIVE CallInfoBarriers(_, _, _, _)
CallInfoBarriers(tss, sf, infos, k) ==
    IF k > Len(infos) THEN {}
    ELSE CallInfoBarriersAt(by_offset(tss, infos[k].bytecode_offset), sf,
                            infos[k])
         \cup CallInfoBarriers(IncorporateCallInfo(tss, infos[k]), sf, infos,
                               k + 1)

\* The barriers of the pop of frame simf, r the result of by_type for it.
PopBarriersWith(simf, r) ==
    IF r.idx = 0 THEN {}
    ELSE LogBarriers(r.ss.by_callsite[simf.callsite_idx].by_type[r.idx],
                     simf.sf, simf.offset_logs, 1)
         \cup CallInfoBarriers(
                IncorporateLogs(
                    r.ss.by_callsite[simf.callsite_idx].by_type[r.idx],
                    simf.offset_logs, 1),
                simf.sf, simf.call_type_info, 1)

\* The barriers of the pop of the top frame simf of st.
PopBarriersOf(st, simf) ==
    PopBarriersWith(simf,
        by_type(PopCallsiteLevel(st.stats[simf.sf], simf, st.depth),
                simf.callsite_idx, simf.arg_types))

\* The barriers of sim_stack_pop(st).
PopBarriers(st) ==
    IF Len(st.frames) = 0 THEN {}
    ELSE PopBarriersOf(st, st.frames[Len(st.frames)])

\* case MVM_SPESH_LOG_PARAMETER / PARAMETER_DECONT storing the type with a
\* plain assignment.
ParameterBarriers_Plain(f, e) == {}

\* case MVM_SPESH_LOG_PARAMETER / PARAMETER_DECONT: MVM_ASSIGN_REF on the
\* type slot, when the frame is found and has one for the argument.
ParameterBarriers(f, e) ==
    IF f.idx = 0 THEN {}
    ELSE IF param_type(FrameCallsite(f.st, f.idx), e.arg_idx) > 0
    THEN MVM_gc_write_barrier(f.st.frames[f.idx].sf, e.type)
    ELSE {}

\* add_static_value: MVM_ASSIGN_REF on the appended entry only.
StaticBarriers(f, e) ==
    IF f.idx = 0 THEN {}
    ELSE IF \E k \in DOMAIN f.st.stats[f.st.frames[f.idx].sf].static_values :
                f.st.stats[f.st.frames[f.idx].sf].static_values[k]
                    .bytecode_offset = e.bytecode_offset
    THEN {}
    ELSE MVM_gc_write_barrier(f.st.frames[f.idx].sf, e.value)

\* The barriers of the handler of e itself, after the pops sim_stack_find
\* made: f is the result of sim_stack_find.
HandlerBarriers(f, e) ==
    IF e.kind \in {"PARAMETER", "PARAMETER_DECONT"} THEN ParameterBarriers(f, e)
    ELSE IF e.kind = "STATIC" THEN StaticBarriers(f, e)
    ELSE {}

(***************************************************************************)
(* The pointer hash table (ptr_hash_table.c, ptr_hash_table_funcs.h).      *)
(*                                                                         *)
(* A table t is the record of hashtable->table:                            *)
(*   table            FALSE for hashtable->table == NULL                   *)
(*   official_size, key_right_shift, cur_items, max_items                  *)
(*                    the fields of the control structure                  *)
(*   slots            the number of entry slots of the current allocation  *)
(*   metadata         the metadata bytes of the allocation: metadata[1]    *)
(*                    is the sentinel before slot 0, metadata[s + 2] the   *)
(*                    byte of slot s, metadata[slots + 2] the sentinel     *)
(*                    after the last slot                                  *)
(*   entries          entries[s + 1] is the entry of slot s, a record      *)
(*                    [key, value]                                         *)
(*   ub               an access outside the allocation has happened        *)
(*   badfree          the operation has given MVM_free an address that is  *)
(*                    not the start of an allocation                       *)
(* Keys are pointers, modelled as the integers 0 .. 2^HashBits - 1, the    *)
(* null pointer being 0.  The hash is HashBits wide instead of 64, and     *)
(* MVM_HASH_MAX_PROBE_DISTANCE is scaled down with it, so that a table of  *)
(* the initial size can reach it.                                          *)
(*                                                                         *)
(* An operation gives a record [t, entry, oops]: the table after it, the   *)
(* slot of the entry it returns (-1 for NULL), and whether it ended in     *)
(* MVM_oops.                                                               *)
(***************************************************************************)
RECURSIVE Pow2(_)
Pow2(n) == IF n <= 0 THEN 1 ELSE 2 * Pow2(n - 1)

\* The null pointer as a key.
NullKey == 0

\* The multiplier of the Fibonacci hash: 2^HashBits / phi, rounded to an odd
\* number (11400714819323198485 for 64 bits).
HashvDivPhi ==
    IF ((Pow2(HashBits) * 618) \div 1000) % 2 = 1
    THEN (Pow2(HashBits) * 618) \div 1000
    ELSE ((Pow2(HashBits) * 618) \div 1000) + 1

\* Fibonacci bucket determination: the multiplication wraps at the width of
\* the hash.
MVM_ptr_hash_code(key) == (key * HashvDivPhi) % Pow2(HashBits)

\* MVM_ptr_hash_code(key) >> control->key_right_shift
PtrBucket(t, key) == MVM_ptr_hash_code(key) \div Pow2(t.key_right_shift)

PTR_INITIAL_SIZE == 8

\* 8 * sizeof(uintptr_t) - 3
PTR_INITIAL_KEY_RIGHT_SHIFT == HashBits - 3

\* official_size * PTR_LOAD_FACTOR, converted to an integer.
PtrLoadLimit(official_size) == (official_size * 3) \div 4

\* The content of memory that was allocated and not written yet.
FreshEntry == [key |-> NullKey, value |-> 0]

\* MVM_ptr_hash_build: hashtable->table = NULL.
PtrNoTable ==
    [table |-> FALSE, official_size |-> 0, key_right_shift |-> 0,
     cur_items |-> 0, max_items |-> 0, slots |-> 0, metadata |-> <<>>,
     entries |-> <<>>, ub |-> FALSE, badfree |-> FALSE]

\* *(MVM_ptr_hash_metadata(control) + slot)
PtrMeta(t, slot) == t.metadata[slot + 2]

\* The entry at MVM_ptr_hash_entries(control) - slot * sizeof(entry)
PtrEntry(t, slot) == t.entries[slot + 1]

hash_true_size(control) ==
    IF control.official_size + MVM_HASH_MAX_PROBE_DISTANCE
            < control.official_size + control.max_items - 1
    THEN control.official_size + MVM_HASH_MAX_PROBE_DISTANCE
    ELSE control.official_size + control.max_items - 1

\* PtrAllocate without the sentinel after the last slot.
PtrAllocate_OneSentinel(control, true_size) ==
    [control EXCEPT
        !.slots = true_size,
        !.metadata = [i \in 1..(true_size + 2) |-> IF i = 1 THEN 1 ELSE 0],
        !.entries = [i \in 1..true_size |-> FreshEntry]]

\* The allocation of hash_allocate_common once max_items is set: true_size
\* slots, the metadata zeroed, a sentinel at each end.
PtrAllocate(control, true_size) ==
    [control EXCEPT
        !.slots = true_size,
        !.metadata = [i \in 1..(true_size + 2) |->
                        IF i = 1 \/ i = true_size + 2 THEN 1 ELSE 0],
        !.entries = [i \in 1..true_size |-> FreshEntry]]

PtrAllocateWith(control) == PtrAllocate(control, hash_true_size(control))

hash_allocate_common(control) ==
    PtrAllocateWith(
        [control EXCEPT !.max_items = PtrLoadLimit(control.official_size)])

\* MVM_calloc of the control structure, then hash_initial_allocate.
hash_initial_allocate(control) ==
    hash_allocate_common(
        [control EXCEPT !.table = TRUE,
                        !.key_right_shift = PTR_INITIAL_KEY_RIGHT_SHIFT,
                        !.official_size = PTR_INITIAL_SIZE])

hash_grow(control) ==
    hash_allocate_common(
        [control EXCEPT !.key_right_shift = @ - 1,
                        !.official_size = @ * 2])

\* The result of an operation that ran outside the allocation.
PtrOutside(t) == [t |-> [t EXCEPT !.ub = TRUE], entry |-> -1, oops |-> FALSE]

\* The "make room" loop: the first slot from g on whose metadata is 0, or -1
\* when the loop reaches the sentinel after the last slot, which it would
\* overwrite and run past.
RECURSIVE PtrFindGap(_, _)
PtrFindGap(t, g) ==
    IF g >= t.slots THEN -1
    ELSE IF PtrMeta(t, g) = 0 THEN g
    ELSE PtrFindGap(t, g + 1)

\* PtrTake with the entries moved and their probe distances left as they
\* were.
PtrTake_NoRaise(t, probe_distance, slot, gap) ==
    [t |-> [t EXCEPT
                !.metadata = [i \in DOMAIN @ |->
                    IF i - 2 = slot THEN probe_distance
                    ELSE IF i - 2 > slot /\ i - 2 <= gap THEN @[i - 1]
                    ELSE @[i]],
                !.entries = [i \in DOMAIN @ |->
                    IF i - 1 = slot THEN [@[i] EXCEPT !.key = NullKey]
                    ELSE IF i - 1 > slot /\ i - 1 <= gap THEN @[i - 1]
                    ELSE @[i]]],
     entry |-> slot, oops |-> FALSE]

\* The slot is taken with probe_distance: the entries of slot .. gap - 1
\* move one slot along with their probe distances raised by one, max_items
\* is zeroed when a probe distance written is MVM_HASH_MAX_PROBE_DISTANCE,
\* and the key of the entry is set to NULL.
PtrTake(t, probe_distance, slot, gap) ==
    [t |-> [t EXCEPT
                !.metadata = [i \in DOMAIN @ |->
                    IF i - 2 = slot THEN probe_distance
                    ELSE IF i - 2 > slot /\ i - 2 <= gap THEN @[i - 1] + 1
                    ELSE @[i]],
                !.entries = [i \in DOMAIN @ |->
                    IF i - 1 = slot THEN [@[i] EXCEPT !.key = NullKey]
                    ELSE IF i - 1 > slot /\ i - 1 <= gap THEN @[i - 1]
                    ELSE @[i]],
                !.max_items =
                    IF \/ probe_distance = MVM_HASH_MAX_PROBE_DISTANCE
                       \/ \E j \in slot..(gap - 1) :
                            PtrMeta(t, j) + 1 = MVM_HASH_MAX_PROBE_DISTANCE
                    THEN 0 ELSE @],
     entry |-> slot, oops |-> FALSE]

PtrTakeGap(t, probe_distance, slot, gap) ==
    IF gap = -1 THEN PtrOutside(t) ELSE PtrTake(t, probe_distance, slot, gap)

\* PtrPlace without the assignments control->max_items = 0.
PtrPlace_KeepLimit(t, probe_distance, slot) ==
    IF slot >= t.slots THEN PtrOutside(t)
    ELSE IF PtrMeta(t, slot) = 0
    THEN [PtrTake(t, probe_distance, slot, slot) EXCEPT
            !.t.max_items = t.max_items]
    ELSE IF PtrFindGap(t, slot + 1) = -1 THEN PtrOutside(t)
    ELSE [PtrTake(t, probe_distance, slot, PtrFindGap(t, slot + 1)) EXCEPT
            !.t.max_items = t.max_items]

\* "this is our slot. occupied or not, it is our rightful place."
PtrPlace(t, probe_distance, slot) ==
    IF slot >= t.slots THEN PtrOutside(t)
    ELSE IF PtrMeta(t, slot) = 0 THEN PtrTake(t, probe_distance, slot, slot)
    ELSE PtrTakeGap(t, probe_distance, slot, PtrFindGap(t, slot + 1))

\* The probe loop of hash_insert_internal.
RECURSIVE PtrInsertProbe(_, _, _, _)
PtrInsertProbe(t, key, probe_distance, slot) ==
    IF slot > t.slots THEN PtrOutside(t)
    ELSE IF PtrMeta(t, slot) < probe_distance
    THEN PtrPlace(t, probe_distance, slot)
    ELSE IF PtrMeta(t, slot) = probe_distance /\ slot = t.slots
    THEN PtrOutside(t)
    ELSE IF PtrMeta(t, slot) = probe_distance /\ PtrEntry(t, slot).key = key
    THEN [t |-> t, entry |-> slot, oops |-> FALSE]
    ELSE PtrInsertProbe(t, key, probe_distance + 1, slot + 1)

hash_insert_internal(control, key) ==
    IF control.cur_items >= control.max_items
    THEN [t |-> control, entry |-> -1, oops |-> TRUE]
    ELSE PtrInsertProbe(control, key, 1, PtrBucket(control, key))

\* The probe loop of MVM_ptr_hash_fetch: the slot of the entry, -1 for NULL,
\* -2 when the loop runs outside the allocation.
RECURSIVE PtrFetchProbe(_, _, _, _)
PtrFetchProbe(t, key, probe_distance, slot) ==
    IF slot > t.slots THEN -2
    ELSE IF PtrMeta(t, slot) = probe_distance /\ slot = t.slots THEN -2
    ELSE IF PtrMeta(t, slot) = probe_distance /\ PtrEntry(t, slot).key = key
    THEN slot
    ELSE IF PtrMeta(t, slot) < probe_distance THEN -1
    ELSE PtrFetchProbe(t, key, probe_distance + 1, slot + 1)

\* The asserts at the end of the body of the probe loops, for the values
\* probe_distance and slot have after their increments.  The third compares
\* with the number of values of a probe distance, 256 for a byte.
PtrAsserts(t, probe_distance, slot) ==
    /\ probe_distance <= MVM_HASH_MAX_PROBE_DISTANCE
    /\ slot < t.official_size + t.max_items
    /\ slot < t.official_size + MVM_HASH_MAX_PROBE_DISTANCE + 1

\* A probe loop for key that is at probe_distance and slot reaches an assert
\* that fails.  The loops of fetch, of fetch_and_delete and of
\* hash_insert_internal go on under the same condition: the byte of the slot
\* is not below probe_distance and the slot does not hold the key.
RECURSIVE PtrProbeAborts(_, _, _, _)
PtrProbeAborts(t, key, probe_distance, slot) ==
    IF slot >= t.slots THEN FALSE
    ELSE IF PtrMeta(t, slot) < probe_distance THEN FALSE
    ELSE IF PtrMeta(t, slot) = probe_distance /\ PtrEntry(t, slot).key = key
    THEN FALSE
    ELSE IF ~PtrAsserts(t, probe_distance + 1, slot + 1) THEN TRUE
    ELSE PtrProbeAborts(t, key, probe_distance + 1, slot + 1)

MVM_ptr_hash_fetch(t, key) ==
    IF ~t.table THEN -1
    ELSE PtrFetchProbe(t, key, 1, PtrBucket(t, key))

\* *new_entry = *old_entry, for the result r of hash_insert_internal.
PtrCopyEntry(r, old_entry) ==
    IF r.oops \/ r.entry < 0 THEN r
    ELSE [r EXCEPT !.t.entries[r.entry + 1] = old_entry]

\* The loop of MVM_ptr_hash_lvalue_fetch over the old allocation orig, from
\* bucket on: r.t is the grown table so far.
RECURSIVE PtrReinsert(_, _, _, _)
PtrReinsert(r, orig, bucket, true_size) ==
    IF r.oops \/ r.t.ub \/ bucket >= true_size THEN r
    ELSE IF bucket >= orig.slots THEN PtrOutside(r.t)
    ELSE IF PtrMeta(orig, bucket) # 0
    THEN PtrReinsert(
            PtrCopyEntry(hash_insert_internal(r.t, PtrEntry(orig, bucket).key),
                         PtrEntry(orig, bucket)),
            orig, bucket + 1, true_size)
    ELSE PtrReinsert(r, orig, bucket + 1, true_size)

\* MVM_free(entry_raw_orig - sizeof(entry) * (true_size - 1)): the address
\* is that of the old allocation only if true_size is its slot count.
PtrFreeOld(r, orig, true_size) ==
    IF true_size = orig.slots THEN r ELSE [r EXCEPT !.t.badfree = TRUE]

\* The branch of MVM_ptr_hash_lvalue_fetch that grows the table, true_size
\* being hash_true_size(control) before hash_grow.
PtrGrowWith(control, true_size) ==
    PtrFreeOld(
        PtrReinsert([t |-> hash_grow(control), entry |-> -1, oops |-> FALSE],
                    control, 0, true_size),
        control, true_size)

\* if (!new_entry->key) ++control->cur_items;
PtrCount(r) ==
    IF r.oops \/ r.entry < 0 THEN r
    ELSE IF PtrEntry(r.t, r.entry).key = NullKey
    THEN [r EXCEPT !.t.cur_items = @ + 1]
    ELSE r

\* The end of MVM_ptr_hash_lvalue_fetch, g the result of the branch before.
PtrInsertCount(g, key) ==
    IF g.oops \/ g.t.ub THEN g
    ELSE PtrCount(hash_insert_internal(g.t, key))

\* The branch at cur_items >= max_items, entry the result of the fetch.
PtrFullWith(control, key, entry) ==
    IF entry >= 0 THEN [t |-> control, entry |-> entry, oops |-> FALSE]
    ELSE IF entry = -2 THEN PtrOutside(control)
    ELSE PtrInsertCount(PtrGrowWith(control, hash_true_size(control)), key)

MVM_ptr_hash_lvalue_fetch(t, key) ==
    IF ~t.table
    THEN PtrInsertCount([t |-> hash_initial_allocate(t), entry |-> -1,
                         oops |-> FALSE], key)
    ELSE IF t.cur_items >= t.max_items
    THEN PtrFullWith(t, key, MVM_ptr_hash_fetch(t, key))
    ELSE PtrInsertCount([t |-> t, entry |-> -1, oops |-> FALSE], key)

\* MVM_ptr_hash_insert once the entry is fetched.
PtrInsertWith(r, key, value) ==
    IF r.oops \/ r.entry < 0 THEN r
    ELSE IF PtrEntry(r.t, r.entry).key # NullKey
    THEN IF value # PtrEntry(r.t, r.entry).value
         THEN [r EXCEPT !.oops = TRUE]
         ELSE r
    ELSE [r EXCEPT !.t.entries[r.entry + 1] = [key |-> key, value |-> value]]

MVM_ptr_hash_insert(t, key, value) ==
    PtrInsertWith(MVM_ptr_hash_lvalue_fetch(t, key), key, value)

\* The last slot the deletion of the entry of slot target moves an entry
\* out of: the slots after it hold probe distances above 1.
RECURSIVE PtrDeleteTarget(_, _)
PtrDeleteTarget(t, target) ==
    IF target + 1 > t.slots THEN -1
    ELSE IF PtrMeta(t, target + 1) > 1 THEN PtrDeleteTarget(t, target + 1)
    ELSE target

\* PtrDeleteAt with no entry moved back: the slot is emptied where it is.
PtrDeleteAt_NoShift(t, slot, target) ==
    [t |-> [t EXCEPT !.metadata[slot + 2] = 0, !.cur_items = @ - 1],
     retval |-> PtrEntry(t, slot).value]

\* "Target acquired": the entry of slot is removed, the entries of
\* slot + 1 .. target move one slot back with their probe distances
\* lowered by one.
PtrDeleteAt(t, slot, target) ==
    IF target = -1 THEN [t |-> [t EXCEPT !.ub = TRUE], retval |-> 0]
    ELSE [t |-> [t EXCEPT
                    !.metadata = [i \in DOMAIN @ |->
                        IF i - 2 >= slot /\ i - 2 < target THEN @[i + 1] - 1
                        ELSE IF i - 2 = target THEN 0
                        ELSE @[i]],
                    !.entries = [i \in DOMAIN @ |->
                        IF i - 1 >= slot /\ i - 1 < target THEN @[i + 1]
                        ELSE @[i]],
                    !.cur_items = @ - 1],
          retval |-> PtrEntry(t, slot).value]

\* PtrDeleteWith with the value of the deleted entry not handed back.
PtrDeleteWith_NoValue(t, slot) ==
    IF slot = -1 THEN [t |-> t, retval |-> 0]
    ELSE IF slot = -2 THEN [t |-> [t EXCEPT !.ub = TRUE], retval |-> 0]
    ELSE [PtrDeleteAt(t, slot, PtrDeleteTarget(t, slot)) EXCEPT !.retval = 0]

\* MVM_ptr_hash_fetch_and_delete once the probe loop has ended at slot
\* (-1: not found, -2: outside the allocation).
PtrDeleteWith(t, slot) ==
    IF slot = -1 THEN [t |-> t, retval |-> 0]
    ELSE IF slot = -2 THEN [t |-> [t EXCEPT !.ub = TRUE], retval |-> 0]
    ELSE PtrDeleteAt(t, slot, PtrDeleteTarget(t, slot))

\* The probe loop of fetch_and_delete makes the tests of that of fetch.
MVM_ptr_hash_fetch_and_delete(t, key) ==
    IF ~t.table THEN [t |-> t, retval |-> 0]
    ELSE PtrDeleteWith(t, PtrFetchProbe(t, key, 1, PtrBucket(t, key)))

(***************************************************************************)
(* State.                                                                  *)
(*   stats       spesh_stats of every static frame                         *)
(*   frames      the frames of the SimStack of the running update          *)
(*   depth       sims.depth                                                *)
(*   version     tc->instance->spesh_stats_version                         *)
(*   sf_updated  the array update pushes updated static frames into        *)
(*   pc          "idle" between update calls, "running" inside the loop    *)
(*               of MVM_spesh_stats_update, "panic" after MVM_panic        *)
(*   nlog        log entries consumed so far, over all update calls        *)
(*   nupd        update calls begun so far                                 *)
(* History variables, which no action reads to decide what the program     *)
(* does:                                                                   *)
(*   stats0      stats when the running (or last) update call began        *)
(*   sink0       Len(sf_updated) when it began                             *)
(*   g_entries   ENTRY records it has consumed                             *)
(*   g_entered   static frames that received an ENTRY in it                *)
(*   g_osr       per static frame, OSR records that addressed a frame of   *)
(*               it that was on the sim stack                              *)
(*   g_pops      the pops the last step made: for each the state before    *)
(*               and after it                                              *)
(*   g_owed      per sim frame, the return types it is owed: RETURN        *)
(*               records of callees its most recent INVOKE targeted        *)
(*   g_done      the owed return types of the frames popped so far, with   *)
(*               the ByType their pop resolved                             *)
(*   g_scen      progress of the log through the nested-call scenarios     *)
(*   g_nest      progress of the log through the depth scenario            *)
(*   g_clean     the stats, the array and the version the last call of     *)
(*               MVM_spesh_stats_cleanup was given                         *)
(*   g_last      the log entry the last step consumed, in the runs that    *)
(*               keep track of it (lim.track)                              *)
(*   g_popped    the frames popped in the running (or last) update call,   *)
(*               counted by static frame, callsite and whether the pop     *)
(*               resolved a ByType, in the runs that keep g_last           *)
(*   g_heap      the arg_types buffers allocated so far: for each how      *)
(*               often it was freed and the ByTypes it was made the        *)
(*               arg_types of; for each sim frame its buffer and the       *)
(*               buffers its call type infos point to; whether a freed     *)
(*               buffer was read; in the runs that keep track of it        *)
(*               (lim.heap), which make one update call                    *)
(*   g_barriers  the write barriers issued so far, in the runs that keep   *)
(*               track of them (lim.wb)                                    *)
(* The pointer hash table and its caller:                                  *)
(*   ptr         the table                                                 *)
(*   ptr_pc      "ok", or "oops" after MVM_oops                            *)
(*   ptr_map     history: the keys stored and not deleted since, each      *)
(*               with the value last stored for it                         *)
(*   ptr_op      history: the last operation on the table, its arguments,  *)
(*               what it returned, and the number of operations so far     *)
(***************************************************************************)
VARIABLES stats, frames, depth, version, sf_updated, pc, nlog, nupd,
          stats0, sink0, g_entries, g_entered, g_osr, g_pops, g_owed,
          g_done, g_scen, g_nest, g_clean, g_last, g_barriers, g_popped, g_heap,
          ptr, ptr_pc, ptr_map, ptr_op

vars == <<stats, frames, depth, version, sf_updated, pc, nlog, nupd,
          stats0, sink0, g_entries, g_entered, g_osr, g_pops, g_owed,
          g_done, g_scen, g_nest, g_clean, g_last, g_barriers, g_popped, g_heap,
          ptr, ptr_pc, ptr_map, ptr_op>>

\* The variables of the statistics aggregator and those of the pointer table.
stats_vars == <<stats, frames, depth, version, sf_updated, pc, nlog, nupd,
                stats0, sink0, g_entries, g_entered, g_osr, g_pops, g_owed,
                g_done, g_scen, g_nest, g_clean, g_last, g_barriers,
                g_popped, g_heap>>

ptr_vars == <<ptr, ptr_pc, ptr_map, ptr_op>>

\* The aggregation state the handlers work on.
Cur == [stats |-> stats, frames |-> frames, depth |-> depth, panic |-> FALSE]

(***************************************************************************)
(* History bookkeeping.                                                    *)
(***************************************************************************)
\* The ByType index the pop of the top frame of st resolves, 0 for none.
ResolvedIdxOf(st, simf) ==
    by_type(PopCallsiteLevel(st.stats[simf.sf], simf, st.depth),
            simf.callsite_idx, simf.arg_types).idx

ResolvedIdx(st) == ResolvedIdxOf(st, st.frames[Len(st.frames)])

\* The record of the next n pops from st, first pop first.
RECURSIVE PopTrace(_, _)
PopTraceFrom(st, after, n) ==
    <<[before |-> st, after |-> after, idx |-> ResolvedIdx(st)]>>
    \o PopTrace(after, n - 1)

PopTrace(st, n) ==
    IF n <= 0 \/ Len(st.frames) = 0 THEN <<>>
    ELSE PopTraceFrom(st, sim_stack_pop(st), n)

\* How many frames the handling of e pops.
NPops(fr, e) ==
    IF e.kind = "ENTRY" THEN 0
    ELSE LET k == FoundAt(fr, e.id)
         IN  IF k = 0 THEN 0
             ELSE (Len(fr) - k) + (IF e.kind = "RETURN" THEN 1 ELSE 0)

\* The return type a RETURN record e owes to the parent of the frame it
\* addresses: the set is empty when e owes nothing.
Owes(fr, e) ==
    LET k == FoundAt(fr, e.id)
    IN  IF e.kind = "RETURN" /\ e.type # NULL /\ k >= 2
        THEN IF /\ IsConcreteCode(fr[k - 1].last_invoke_code)
                /\ CodeSf(fr[k - 1].last_invoke_code) = fr[k].sf
             THEN {[bytecode_offset |-> fr[k - 1].last_invoke_offset,
                    type |-> e.type, concrete |-> ConcreteBit(e.flags)]}
             ELSE {}
        ELSE {}

Min(a, b) == IF a <= b THEN a ELSE b

\* g_owed after e: one set per frame left, the parent's set grown.
OwedAfter(fr, owed, e) ==
    IF e.kind = "ENTRY" THEN Append(owed, {})
    ELSE LET left == Len(fr) - NPops(fr, e)
         IN  [j \in 1..left |->
                IF j = left /\ e.kind = "RETURN" THEN owed[j] \cup Owes(fr, e)
                ELSE owed[j]]

\* The owed return types of the frames a trace of pops removed.
DoneOf(owed, trace) ==
    UNION { { [sf |-> trace[t].before.frames[Len(trace[t].before.frames)].sf,
               callsite_idx |->
                  trace[t].before.frames[Len(trace[t].before.frames)].callsite_idx,
               idx |-> trace[t].idx,
               bytecode_offset |-> ob.bytecode_offset,
               type |-> ob.type, concrete |-> ob.concrete]
              : ob \in owed[Len(trace[t].before.frames)] }
            : t \in DOMAIN trace }

\* Progress through the nested-call scenarios.  o follows the order
\* ENTRY A cid=1, [parameters of cid 1], ENTRY B cid=2, INVOKE cid=1
\* offset=42 code=body(B), RETURN cid=2 type=T2, [RETURN cid=1]; n follows
\* ENTRY A cs=C1 cid=1, PARAMETER cid=1 arg 0 type=T concrete, INVOKE cid=1
\* offset=42 code=body(B), ENTRY B cid=2, RETURN cid=2 type=T2,
\* [RETURN cid=1].  -1: the log is not the scenario.
ScenStepO(o, e) ==
    CASE o = 0 /\ e.kind = "ENTRY" /\ e.sf = "A" /\ e.id = 1 -> 1
      [] o = 1 /\ e.kind \in {"PARAMETER", "PARAMETER_DECONT"} /\ e.id = 1 -> 1
      [] o = 1 /\ e.kind = "ENTRY" /\ e.sf = "B" /\ e.id = 2 -> 2
      [] o = 2 /\ e.kind = "INVOKE" /\ e.id = 1 /\ e.bytecode_offset = 42
               /\ e.value = CodeOf("B") -> 3
      [] o = 3 /\ e.kind = "RETURN" /\ e.id = 2 /\ e.type = "T2" -> 4
      [] o = 4 /\ e.kind = "RETURN" /\ e.id = 1 -> 5
      [] OTHER -> -1

ScenStepN(n, e) ==
    CASE n = 0 /\ e.kind = "ENTRY" /\ e.sf = "A" /\ e.id = 1 /\ e.cs = "C1" -> 1
      [] n = 1 /\ e.kind = "PARAMETER" /\ e.id = 1 /\ e.arg_idx = 0
               /\ e.type = "T" /\ ConcreteBit(e.flags) = 1 -> 2
      [] n = 2 /\ e.kind = "INVOKE" /\ e.id = 1 /\ e.bytecode_offset = 42
               /\ e.value = CodeOf("B") -> 3
      [] n = 3 /\ e.kind = "ENTRY" /\ e.sf = "B" /\ e.id = 2 -> 4
      [] n = 4 /\ e.kind = "RETURN" /\ e.id = 2 /\ e.type = "T2" -> 5
      [] n = 5 /\ e.kind = "RETURN" /\ e.id = 1 -> 6
      [] OTHER -> -1

ScenStep(s, e) ==
    [o |-> ScenStepO(s.o, e), n |-> ScenStepN(s.n, e),
     concrete |-> IF e.kind = "RETURN" /\ e.id = 2
                  THEN ConcreteBit(e.flags) ELSE s.concrete]

ScenStart == [o |-> 0, n |-> 0, concrete |-> 0]

\* Progress through the depth scenario: phase "E" while the log is nothing
\* but nested ENTRY records with fresh correlation IDs (chain lists them),
\* phase "R" while it goes on with RETURN records that each address the top
\* frame (r counts them), phase "X" when the log is not the scenario.
NestDead == [phase |-> "X", chain |-> <<>>, r |-> 0]

NestStart == [phase |-> "E", chain |-> <<>>, r |-> 0]

NestStep(s, e) ==
    LET len == Len(s.chain)
    IN  CASE s.phase = "E" /\ e.kind = "ENTRY" /\ len < 5
                /\ \A k \in 1..len : s.chain[k].cid # e.id ->
                [s EXCEPT !.chain = Append(@, [sf |-> e.sf, cs |-> e.cs,
                                               cid |-> e.id])]
          [] s.phase = "E" /\ e.kind = "RETURN" /\ len = 5
                /\ s.chain[len].cid = e.id ->
                [s EXCEPT !.phase = "R", !.r = 1]
          [] s.phase = "R" /\ e.kind = "RETURN" /\ s.r < len
                /\ s.chain[len - s.r].cid = e.id ->
                [s EXCEPT !.r = @ + 1]
          [] OTHER -> NestDead

(***************************************************************************)
(* The arg_types buffers: what sim_stack_push, by_type and sim_stack_pop   *)
(* do with the memory.  Buffers are numbered in the order of allocation,   *)
(* 0 is the NULL pointer.                                                  *)
(***************************************************************************)
NoHeap == [bufs |-> <<>>, frame_buf |-> <<>>, call_bufs |-> <<>>,
           bad_read |-> FALSE]

\* sim_stack_push: MVM_calloc of frame->arg_types when the callsite is not
\* NULL, and an empty call_type_info.
HeapPush(h, cs) ==
    IF cs = NULL
    THEN [h EXCEPT !.frame_buf = Append(@, 0), !.call_bufs = Append(@, <<>>)]
    ELSE [h EXCEPT !.bufs = Append(@, [frees |-> 0, owners |-> {}]),
                   !.frame_buf = Append(@, Len(h.bufs) + 1),
                   !.call_bufs = Append(@, <<>>)]

\* The buffer that is the arg_types of the ByType with identity id, 0 for
\* none.
BufOf(h, id) ==
    IF \E b \in DOMAIN h.bufs : id \in h.bufs[b].owners
    THEN CHOOSE b \in DOMAIN h.bufs : id \in h.bufs[b].owners
    ELSE 0

\* Buffer b is read: reading a freed buffer is recorded.
HeapRead(h, bs) ==
    IF \E b \in bs : b # 0 /\ h.bufs[b].frees > 0
    THEN [h EXCEPT !.bad_read = TRUE]
    ELSE h

\* MVM_free(arg_types) of buffer b.
HeapFree(h, b) ==
    IF b = 0 THEN h ELSE [h EXCEPT !.bufs[b].frees = @ + 1]

\* css->by_type[found].arg_types = arg_types, for buffer b and the new
\* ByType id.
HeapOwn(h, b, id) ==
    IF b = 0 THEN h ELSE [h EXCEPT !.bufs[b].owners = @ \cup {id}]

\* A variant of HeapByType that leaves the buffer alone when a ByType with
\* the same types is found.
HeapByType_KeepFound(h, p, b) ==
    LET simf == p.before.frames[Len(p.before.frames)]
        css == p.before.stats[simf.sf].by_callsite[simf.callsite_idx]
        id(ti) == <<simf.sf, simf.callsite_idx, ti>>
    IN  IF css.cs = NULL \/ cs_without_object_args(css.cs)
        THEN HeapFree(h, b)
        ELSE IF p.idx = 0
        THEN HeapFree(HeapRead(h, {b}), b)
        ELSE IF p.idx <= Len(css.by_type)
        THEN HeapRead(h, {b} \cup {BufOf(h, id(ti)) : ti \in 1..p.idx})
        ELSE HeapOwn(HeapRead(h, {b} \cup {BufOf(h, id(ti)) :
                                            ti \in DOMAIN css.by_type}),
                     b, id(p.idx))

\* by_type on the buffer b of the popped frame of pop p: the buffer is read
\* by incomplete_type_tuple and memcmp, with it the arg_types of the
\* ByTypes the loop passes; it is freed in the three branches that make no
\* ByType and handed to the new ByType in the fourth.
HeapByType(h, p, b) ==
    LET simf == p.before.frames[Len(p.before.frames)]
        css == p.before.stats[simf.sf].by_callsite[simf.callsite_idx]
        id(ti) == <<simf.sf, simf.callsite_idx, ti>>
    IN  IF css.cs = NULL \/ cs_without_object_args(css.cs)
        THEN HeapFree(h, b)
        ELSE IF p.idx = 0
        THEN HeapFree(HeapRead(h, {b}), b)
        ELSE IF p.idx <= Len(css.by_type)
        THEN HeapFree(HeapRead(h, {b} \cup {BufOf(h, id(ti)) : ti \in 1..p.idx}),
                      b)
        ELSE HeapOwn(HeapRead(h, {b} \cup {BufOf(h, id(ti)) :
                                            ti \in DOMAIN css.by_type}),
                     b, id(p.idx))

\* sim_stack_pop after by_type, for a pop that resolved a ByType: the loop
\* over call_type_info reads the buffers the infos point to, and
\* add_sim_call_type_info stores tss->arg_types in the info it queues on
\* the caller.
HeapIncorporate(h, p) ==
    LET n == Len(p.before.frames)
        simf == p.before.frames[n]
        tb == BufOf(h, <<simf.sf, simf.callsite_idx, p.idx>>)
        read == HeapRead(h, {h.call_bufs[n][i] : i \in DOMAIN h.call_bufs[n]})
    IN  IF n >= 2 /\ Len(p.after.frames[n - 1].call_type_info) >
                        Len(p.before.frames[n - 1].call_type_info)
        THEN [read EXCEPT !.call_bufs[n - 1] = Append(@, tb)]
        ELSE read

\* sim_stack_pop, pop p of the trace.
HeapPop(h, p) ==
    LET n == Len(p.before.frames)
        typed == HeapByType(h, p, h.frame_buf[n])
        done == IF p.idx # 0 THEN HeapIncorporate(typed, p) ELSE typed
    IN  [done EXCEPT !.frame_buf = SubSeq(@, 1, n - 1),
                     !.call_bufs = SubSeq(@, 1, n - 1)]

\* The pops of a trace, in order.
RECURSIVE HeapPops(_, _)
HeapPops(h, trace) ==
    IF trace = <<>> THEN h
    ELSE HeapPops(HeapPop(h, Head(trace)), Tail(trace))

\* One turn of the loop for entry e: its pops, and the push of an ENTRY.
HeapEvent(h, trace, e) ==
    IF e.kind = "ENTRY" THEN HeapPush(HeapPops(h, trace), e.cs)
    ELSE HeapPops(h, trace)

(***************************************************************************)
(* Actions.  lim bounds the run: lim.log log entries in all, lim.stack     *)
(* frames on the sim stack, lim.upd update calls; lim.track tells whether  *)
(* the run keeps g_last.                                                   *)
(***************************************************************************)
\* What a pop is counted under: the static frame and the callsite of the
\* frame popped, and whether the pop resolved a ByType.
PopKeys == SFs \X (Callsites \cup {NULL}) \X BOOLEAN

PopKey(p) ==
    LET simf == p.before.frames[Len(p.before.frames)]
    IN  <<simf.sf, p.before.stats[simf.sf].by_callsite[simf.callsite_idx].cs,
          p.idx # 0>>

\* No pop yet.
NoPops == [key \in PopKeys |-> 0]

\* The counts with the pops of trace added.
CountPops(counts, trace) ==
    [key \in PopKeys |->
        counts[key] + Cardinality({i \in DOMAIN trace : PopKey(trace[i]) = key})]

\* The last step consumed no log entry.
NoEvent == [kind |-> "NONE"]

\* No call of MVM_spesh_stats_cleanup yet.
NoClean == [called |-> FALSE]

Init ==
    /\ stats = [sf \in SFs |-> NoStats]
    /\ frames = <<>>
    /\ depth = 0
    /\ version = 0
    /\ sf_updated = <<>>
    /\ pc = "idle"
    /\ nlog = 0
    /\ nupd = 0
    /\ stats0 = [sf \in SFs |-> NoStats]
    /\ sink0 = 0
    /\ g_entries = 0
    /\ g_entered = {}
    /\ g_osr = [sf \in SFs |-> 0]
    /\ g_pops = <<>>
    /\ g_owed = <<>>
    /\ g_done = {}
    /\ g_scen = [o |-> -1, n |-> -1, concrete |-> 0]
    /\ g_nest = NestDead
    /\ g_clean = NoClean
    /\ g_last = NoEvent
    /\ g_barriers = {}
    /\ g_popped = NoPops
    /\ g_heap = NoHeap
    /\ ptr = PtrNoTable
    /\ ptr_pc = "ok"
    /\ ptr_map = <<>>
    /\ ptr_op = [op |-> "build", key |-> NullKey, value |-> 0, entry |-> -1,
                 retval |-> 0, n |-> 0]

\* The caller advances the global version counter between update calls.
Advance(max) ==
    /\ pc = "idle"
    /\ version < max
    /\ version' = version + 1
    /\ UNCHANGED <<stats, frames, depth, sf_updated, pc, nlog, nupd, stats0,
                   sink0, g_entries, g_entered, g_osr, g_pops, g_owed, g_done,
                   g_scen, g_nest, g_clean, g_last, g_barriers, g_popped, g_heap>>
    /\ UNCHANGED ptr_vars

AdvanceVersion == Advance(MaxVersion)

\* MVM_spesh_stats_update is called: sim_stack_init.
BeginUpdate(lim) ==
    /\ pc = "idle"
    /\ nupd < lim.upd
    /\ LET st == sim_stack_init(stats)
       IN  /\ frames' = st.frames
           /\ depth' = st.depth
    /\ pc' = "running"
    /\ nupd' = nupd + 1
    /\ stats0' = stats
    /\ sink0' = Len(sf_updated)
    /\ g_entries' = 0
    /\ g_entered' = {}
    /\ g_osr' = [sf \in SFs |-> 0]
    /\ g_pops' = <<>>
    /\ g_owed' = <<>>
    /\ g_done' = {}
    /\ g_scen' = ScenStart
    /\ g_nest' = NestStart
    /\ g_last' = NoEvent
    /\ g_popped' = NoPops
    /\ UNCHANGED <<stats, version, sf_updated, nlog, g_clean, g_barriers,
                   g_heap>>
    /\ UNCHANGED ptr_vars

\* One turn of the loop of MVM_spesh_stats_update: the log's next entry is
\* e, r is what its handling gives and trace the pops it makes.
ConsumeWith(e, r, trace, k) ==
    /\ stats' = r.st.stats
    /\ frames' = r.st.frames
    /\ depth' = r.st.depth
    /\ sf_updated' = r.sink
    /\ pc' = IF r.st.panic THEN "panic" ELSE "running"
    /\ g_pops' = trace
    /\ g_owed' = OwedAfter(frames, g_owed, e)
    /\ g_done' = g_done \cup DoneOf(g_owed, trace)
    /\ g_osr' = IF e.kind = "OSR" /\ k # 0
                THEN [g_osr EXCEPT ![frames[k].sf] = @ + 1]
                ELSE g_osr
    /\ nlog' = nlog + 1
    /\ g_entries' = IF e.kind = "ENTRY" THEN g_entries + 1 ELSE g_entries
    /\ g_entered' = IF e.kind = "ENTRY" THEN g_entered \cup {e.sf} ELSE g_entered
    /\ g_scen' = ScenStep(g_scen, e)
    /\ g_nest' = NestStep(g_nest, e)
    /\ UNCHANGED <<version, nupd, stats0, sink0, g_clean>>
    /\ UNCHANGED ptr_vars

Consume(e) ==
    ConsumeWith(e, HandleEvent(Cur, version, sf_updated, e),
                PopTrace(Cur, NPops(frames, e)), FoundAt(frames, e.id))

\* The barriers of the pops recorded in trace.
TraceBarriers(trace) ==
    UNION {PopBarriers(trace[i].before) : i \in DOMAIN trace}

\* The barriers of one turn of the loop for entry e from state st: those of
\* the pops it makes and those of its handler.
StepBarriers(st, e) ==
    TraceBarriers(PopTrace(st, NPops(st.frames, e)))
    \cup HandlerBarriers(sim_stack_find(st, e.id), e)

\* The log's next entry is e, in a run bounded by lim.
LogEvent(lim, e) ==
    /\ Consume(e)
    /\ g_last' = IF lim.track THEN e ELSE NoEvent
    /\ g_barriers' = IF lim.wb
                     THEN g_barriers \cup StepBarriers(Cur, e)
                     ELSE g_barriers
    /\ g_popped' = IF lim.track
                   THEN CountPops(g_popped, PopTrace(Cur, NPops(frames, e)))
                   ELSE g_popped
    /\ g_heap' = IF lim.heap
                 THEN HeapEvent(g_heap, PopTrace(Cur, NPops(frames, e)), e)
                 ELSE g_heap

\* The loop is running and the log has a next entry.
MoreLog(lim) == pc = "running" /\ nlog < lim.log

LogEntry(lim, sf, cs, cid) ==
    /\ MoreLog(lim)
    /\ Len(frames) < lim.stack
    /\ LogEvent(lim, Event("ENTRY", cid, sf, cs, 0, NULL, 0, 0, NULL))

LogParameter(lim, cid, arg_idx, type, flags) ==
    /\ MoreLog(lim)
    /\ LogEvent(lim, Event("PARAMETER", cid, NULL, NULL, arg_idx, type, flags, 0, NULL))

LogParameterDecont(lim, cid, arg_idx, type, flags) ==
    /\ MoreLog(lim)
    /\ LogEvent(lim, Event("PARAMETER_DECONT", cid, NULL, NULL, arg_idx, type, flags,
                     0, NULL))

LogType(lim, cid, bytecode_offset, type, flags) ==
    /\ MoreLog(lim)
    /\ LogEvent(lim, Event("TYPE", cid, NULL, NULL, 0, type, flags, bytecode_offset,
                     NULL))

LogInvoke(lim, cid, bytecode_offset, value) ==
    /\ MoreLog(lim)
    /\ LogEvent(lim, Event("INVOKE", cid, NULL, NULL, 0, NULL, 0, bytecode_offset,
                     value))

LogOsr(lim, cid) ==
    /\ MoreLog(lim)
    /\ LogEvent(lim, Event("OSR", cid, NULL, NULL, 0, NULL, 0, 0, NULL))

LogStatic(lim, cid, bytecode_offset, value) ==
    /\ MoreLog(lim)
    /\ LogEvent(lim, Event("STATIC", cid, NULL, NULL, 0, NULL, 0, bytecode_offset,
                     value))

LogReturn(lim, cid, bytecode_offset, type, flags) ==
    /\ MoreLog(lim)
    /\ LogEvent(lim, Event("RETURN", cid, NULL, NULL, 0, type, flags, bytecode_offset,
                     NULL))

\* The log is at its end: sim_stack_destroy, and update returns.
EndWith(st, trace) ==
    /\ stats' = st.stats
    /\ frames' = st.frames
    /\ depth' = st.depth
    /\ pc' = IF st.panic THEN "panic" ELSE "idle"
    /\ g_pops' = trace
    /\ g_done' = g_done \cup DoneOf(g_owed, trace)
    /\ g_owed' = <<>>
    /\ UNCHANGED <<version, sf_updated, nlog, nupd, stats0, sink0, g_entries,
                   g_entered, g_osr, g_scen, g_nest, g_clean>>
    /\ UNCHANGED ptr_vars
    /\ g_last' = NoEvent

EndUpdate(lim) ==
    /\ pc = "running"
    /\ EndWith(sim_stack_destroy(Cur), PopTrace(Cur, Len(frames)))
    /\ g_barriers' = IF lim.wb
                     THEN g_barriers \cup TraceBarriers(PopTrace(Cur, Len(frames)))
                     ELSE g_barriers
    /\ g_popped' = IF lim.track
                   THEN CountPops(g_popped, PopTrace(Cur, Len(frames)))
                   ELSE g_popped
    /\ g_heap' = IF lim.heap
                 THEN HeapPops(g_heap, PopTrace(Cur, Len(frames)))
                 ELSE g_heap

\* The caller hands the array of updated frames to cleanup, r is what
\* MVM_spesh_stats_cleanup makes of it.
CleanupWith(r) ==
    /\ stats' = r.stats
    /\ sf_updated' = r.check_frames
    /\ g_clean' = [called |-> TRUE, stats |-> stats, check_frames |-> sf_updated,
                   version |-> version, nupd |-> nupd]
    /\ UNCHANGED <<frames, depth, version, pc, nlog, nupd, stats0, sink0,
                   g_entries, g_entered, g_osr, g_pops, g_owed, g_done, g_scen,
                   g_nest, g_last, g_barriers, g_popped, g_heap>>
    /\ UNCHANGED ptr_vars

Cleanup ==
    /\ pc = "idle"
    /\ CleanupWith(MVM_spesh_stats_cleanup(stats, sf_updated, version))

(***************************************************************************)
(* The caller of the pointer hash table.                                   *)
(***************************************************************************)
\* m with value stored for key.
StoreMap(m, key, value) ==
    [k \in DOMAIN m \cup {key} |-> IF k = key THEN value ELSE m[k]]

\* m without key.
DropMap(m, key) == [k \in DOMAIN m \ {key} |-> m[k]]

\* The table can be called with key: the process has not ended, and the call
\* does not grow a table that has as many buckets as there are hash codes.
PtrReady(key) ==
    /\ ptr_pc = "ok"
    /\ ~ptr.ub
    /\ ~(ptr.table /\ ptr.key_right_shift = 0
         /\ ptr.cur_items >= ptr.max_items)

\* An operation that stores value for key has returned r.  A free of an
\* address that is not the start of an allocation is undefined: the process
\* is aborted by the allocator, or goes on.
PtrStored(op, r, key, value) ==
    /\ ptr' = [r.t EXCEPT !.badfree = FALSE]
    /\ ptr_pc' \in IF r.oops THEN {"oops"}
                   ELSE IF r.t.badfree THEN {"ok", "abort"}
                   ELSE {"ok"}
    /\ ptr_map' = IF r.oops \/ r.t.ub THEN ptr_map
                  ELSE StoreMap(ptr_map, key, value)
    /\ ptr_op' = [op |-> op, key |-> key, value |-> value, entry |-> r.entry,
                  retval |-> 0, n |-> ptr_op.n + 1]
    /\ UNCHANGED stats_vars

\* MVM_ptr_hash_insert(tc, hashtable, key, value)
PtrInsert(key, value) ==
    /\ PtrReady(key)
    /\ PtrStored("insert", MVM_ptr_hash_insert(ptr, key, value), key, value)

\* What the caller of MVM_ptr_hash_lvalue_fetch does with the entry it is
\* given: it stores the key and a value in it.
PtrCallerStore(r, key, value) ==
    IF r.oops \/ r.entry < 0 THEN r
    ELSE [r EXCEPT !.t.entries[r.entry + 1] = [key |-> key, value |-> value]]

\* MVM_ptr_hash_lvalue_fetch(tc, hashtable, key), and the caller's store.
PtrLvalueFetch(key, value) ==
    /\ PtrReady(key)
    /\ PtrStored("lvalue_fetch",
                 PtrCallerStore(MVM_ptr_hash_lvalue_fetch(ptr, key), key, value),
                 key, value)

\* fetch_and_delete has returned r.
PtrDeleted(r, key) ==
    /\ ptr' = r.t
    /\ ptr_map' = IF r.t.ub THEN ptr_map ELSE DropMap(ptr_map, key)
    /\ ptr_op' = [op |-> "fetch_and_delete", key |-> key, value |-> 0,
                  entry |-> -1, retval |-> r.retval, n |-> ptr_op.n + 1]
    /\ UNCHANGED ptr_pc
    /\ UNCHANGED stats_vars

\* MVM_ptr_hash_fetch_and_delete(tc, hashtable, key)
PtrFetchAndDelete(key) ==
    /\ ptr_pc = "ok"
    /\ ~ptr.ub
    /\ PtrDeleted(MVM_ptr_hash_fetch_and_delete(ptr, key), key)

(***************************************************************************)
(* Spec: every event kind, several update calls, the version counter       *)
(* advancing or not between them.                                          *)
(***************************************************************************)
Lim ==
    [log |-> MaxLog, stack |-> MaxStack, upd |-> MaxUpdates, track |-> FALSE,
     wb |-> FALSE,
     heap |-> FALSE]

Cids == {1, 2}

Next ==
    \/ AdvanceVersion
    \/ BeginUpdate(Lim)
    \/ \E sf \in SFs, cs \in {NULL, "C1"}, cid \in Cids :
          LogEntry(Lim, sf, cs, cid)
    \/ LogParameter(Lim, 1, 0, "T", 1)
    \/ LogParameterDecont(Lim, 1, 0, "T", 1)
    \/ LogType(Lim, 1, 42, "T", 1)
    \/ LogInvoke(Lim, 1, 42, CodeOf("B"))
    \/ \E cid \in Cids : LogOsr(Lim, cid)
    \/ LogStatic(Lim, 1, 42, "Obj")
    \/ \E cid \in Cids : LogReturn(Lim, cid, 7, "T2", 1)
    \/ EndUpdate(Lim)

Spec == Init /\ [][Next]_vars

(***************************************************************************)
(* SpecTuple: one update call over logs of ENTRY, PARAMETER,               *)
(* PARAMETER_DECONT and RETURN records, for the argument type tuples.      *)
(***************************************************************************)
TupleLim ==
    [log |-> TupleLog, stack |-> MaxStack, upd |-> 1, track |-> FALSE,
     wb |-> FALSE,
     heap |-> FALSE]

NextTuple ==
    \/ BeginUpdate(TupleLim)
    \/ \E cs \in {"C0", "C1", "C2"}, cid \in Cids : LogEntry(TupleLim, "A", cs, cid)
    \/ \E cid \in Cids, arg_idx \in {0, 2}, type \in {"T", "TC"}, flags \in {0, 1} :
          LogParameter(TupleLim, cid, arg_idx, type, flags)
    \/ \E cid \in Cids, arg_idx \in {0, 2} :
          LogParameterDecont(TupleLim, cid, arg_idx, "T", 1)
    \/ \E cid \in Cids : LogReturn(TupleLim, cid, 7, NULL, 0)
    \/ EndUpdate(TupleLim)

SpecTuple == Init /\ [][NextTuple]_vars

(***************************************************************************)
(* SpecCall: one update call over logs of calls between frames, the        *)
(* correlation IDs handed out in sequence.                                 *)
(***************************************************************************)
CallLim ==
    [log |-> CallLog, stack |-> MaxStack, upd |-> 1, track |-> FALSE,
     wb |-> FALSE,
     heap |-> FALSE]

NextCall ==
    \/ BeginUpdate(CallLim)
    \/ \E sf \in SFs, cs \in {NULL, "C1"} :
          LogEntry(CallLim, sf, cs, g_entries + 1)
    \/ \E cid \in Cids : LogParameter(CallLim, cid, 0, "T", 1)
    \/ \E cid \in Cids : LogType(CallLim, cid, 42, "T2", 1)
    \/ \E cid \in Cids, value \in {CodeOf("B"), "Obj"} :
          LogInvoke(CallLim, cid, 42, value)
    \/ \E cid \in Cids, type \in {NULL, "T2"} : LogReturn(CallLim, cid, 7, type, 1)
    \/ EndUpdate(CallLim)

SpecCall == Init /\ [][NextCall]_vars

(***************************************************************************)
(* SpecDepth: one update call over logs of ENTRY and RETURN records, the   *)
(* correlation IDs handed out in sequence.                                 *)
(***************************************************************************)
DepthLim ==
    [log |-> DepthLog, stack |-> DepthStack, upd |-> 1, track |-> FALSE,
     wb |-> FALSE,
     heap |-> FALSE]

NextDepth ==
    \/ BeginUpdate(DepthLim)
    \/ \E sf \in SFs : LogEntry(DepthLim, sf, NULL, g_entries + 1)
    \/ \E cid \in 1..DepthStack : LogReturn(DepthLim, cid, 7, NULL, 0)
    \/ EndUpdate(DepthLim)

SpecDepth == Init /\ [][NextDepth]_vars

(***************************************************************************)
(* SpecAge: update calls over logs of ENTRY records, the version counter   *)
(* advancing between them, and calls of cleanup.                           *)
(***************************************************************************)
AgeLim ==
    [log |-> AgeLog, stack |-> 1, upd |-> AgeUpdates, track |-> FALSE,
     wb |-> FALSE,
     heap |-> FALSE]

NextAge ==
    \/ Advance(AgeVersion)
    \/ BeginUpdate(AgeLim)
    \/ \E sf \in SFs : LogEntry(AgeLim, sf, NULL, 1)
    \/ EndUpdate(AgeLim)
    \/ Cleanup

SpecAge == Init /\ [][NextAge]_vars

(***************************************************************************)
(* SpecEvents: update calls over logs of every event kind, addressed to    *)
(* frames on the sim stack, to frames popped before and to frames never    *)
(* entered; the correlation IDs of an update call are handed out in        *)
(* sequence.                                                               *)
(***************************************************************************)
EventLim ==
    [log |-> EventLog, stack |-> 2, upd |-> EventUpdates, track |-> TRUE,
     wb |-> FALSE,
     heap |-> FALSE]

NextEvents ==
    \/ BeginUpdate(EventLim)
    \/ \E sf \in SFs, cs \in {NULL, "C1"} :
          LogEntry(EventLim, sf, cs, g_entries + 1)
    \/ \E cid \in Cids : LogParameter(EventLim, cid, 0, "T", 1)
    \/ \E cid \in Cids : LogParameterDecont(EventLim, cid, 0, "T", 1)
    \/ \E cid \in Cids : LogType(EventLim, cid, 42, "T2", 1)
    \/ \E cid \in Cids : LogInvoke(EventLim, cid, 42, CodeOf("B"))
    \/ \E cid \in Cids : LogOsr(EventLim, cid)
    \/ \E cid \in Cids, value \in {"Obj", CodeOf("A")} :
          LogStatic(EventLim, cid, 42, value)
    \/ \E cid \in Cids : LogReturn(EventLim, cid, 7, "T2", 1)
    \/ EndUpdate(EventLim)

SpecEvents == Init /\ [][NextEvents]_vars

(***************************************************************************)
(* SpecKeys: one update call over logs shaped like those of running code:  *)
(* every ENTRY with an argument is followed by its PARAMETER entry, and    *)
(* the entries after it address the frame on top of the sim stack.  The    *)
(* logs are long enough for every sequence of the tree to meet a key a     *)
(* second time.                                                            *)
(***************************************************************************)
KeysLim == [log |-> KeysLog, stack |-> 2, upd |-> 1, track |-> FALSE,
     wb |-> FALSE,
     heap |-> FALSE]

\* The correlation ID of the frame on top of the sim stack.
TopCid == frames[Len(frames)].cid

\* The top frame has no argument, or its argument was logged.
TopHasParameter ==
    /\ Len(frames) > 0
    /\ IF Len(frames[Len(frames)].arg_types) = 0 THEN TRUE
       ELSE frames[Len(frames)].arg_types[1].type # NULL

\* The log may go on with an entry of the body of the top frame.
InBody == Len(frames) = 0 \/ TopHasParameter

NextKeys ==
    \/ BeginUpdate(KeysLim)
    \/ \E sf \in SFs : InBody /\ LogEntry(KeysLim, sf, "C1", g_entries + 1)
    \/ InBody /\ LogEntry(KeysLim, "A", NULL, g_entries + 1)
    \/ /\ Len(frames) > 0
       /\ ~TopHasParameter
       /\ LogParameter(KeysLim, TopCid, 0, "T", 1)
    \/ \E flags \in {0, 1} :
          TopHasParameter /\ LogType(KeysLim, TopCid, 43, "T2", flags)
    \/ \E value \in {CodeOf("B"), "Obj"} :
          TopHasParameter /\ LogInvoke(KeysLim, TopCid, 42, value)
    \/ TopHasParameter /\ LogReturn(KeysLim, TopCid, 7, NULL, 0)
    \/ InBody /\ EndUpdate(KeysLim)

SpecKeys == Init /\ [][NextKeys]_vars

(***************************************************************************)
(* SpecRefs: one update call over logs of calls with an object argument,   *)
(* whose parameter is a plain type or a container type with its decont     *)
(* type, and whose body logs types, invocations, static values and         *)
(* returns.  The write barriers are kept track of.                         *)
(***************************************************************************)
RefsLim == [log |-> RefsLog, stack |-> 2, upd |-> 1, track |-> FALSE,
     wb |-> TRUE,
     heap |-> FALSE]

\* The top frame's parameter is a container type whose decont type is not
\* logged yet.
TopNeedsDecont ==
    /\ Len(frames) > 0
    /\ IF Len(frames[Len(frames)].arg_types) = 0 THEN FALSE
       ELSE /\ container_spec(frames[Len(frames)].arg_types[1].type)
            /\ frames[Len(frames)].arg_types[1].decont_type = NULL

\* The log is between calls or in the body of the top frame.
InRefsBody == Len(frames) = 0 \/ (TopHasParameter /\ ~TopNeedsDecont)

NextRefs ==
    \/ BeginUpdate(RefsLim)
    \/ \E sf \in SFs : InRefsBody /\ LogEntry(RefsLim, sf, "C1", g_entries + 1)
    \/ \E type \in {"T", "TC"} :
        /\ Len(frames) > 0
        /\ ~TopHasParameter
        /\ LogParameter(RefsLim, TopCid, 0, type, 1)
    \/ TopNeedsDecont /\ LogParameterDecont(RefsLim, TopCid, 0, "T2", 1)
    \/ /\ TopHasParameter
       /\ ~TopNeedsDecont
       /\ LogType(RefsLim, TopCid, 43, "T2", 1)
    \/ /\ TopHasParameter
       /\ ~TopNeedsDecont
       /\ LogInvoke(RefsLim, TopCid, 42, CodeOf("B"))
    \/ /\ TopHasParameter
       /\ ~TopNeedsDecont
       /\ LogStatic(RefsLim, TopCid, 44, "Obj")
    \/ /\ TopHasParameter
       /\ ~TopNeedsDecont
       /\ LogReturn(RefsLim, TopCid, 7, "T", 1)
    \/ InRefsBody /\ EndUpdate(RefsLim)

SpecRefs == Init /\ [][NextRefs]_vars

(***************************************************************************)
(* SpecEmpty: several update calls, some of them with an empty log, the    *)
(* version counter advancing or not between them.  The last entry          *)
(* consumed is kept track of.                                              *)
(***************************************************************************)
EmptyLim == [log |-> EmptyLog, stack |-> 2, upd |-> EmptyUpdates, track |-> TRUE,
     wb |-> FALSE,
     heap |-> FALSE]

NextEmpty ==
    \/ Advance(EmptyVersion)
    \/ BeginUpdate(EmptyLim)
    \/ \E sf \in SFs, cs \in {NULL, "C1"} :
          LogEntry(EmptyLim, sf, cs, g_entries + 1)
    \/ \E cid \in Cids : LogParameter(EmptyLim, cid, 0, "T", 1)
    \/ \E cid \in Cids : LogOsr(EmptyLim, cid)
    \/ \E cid \in Cids : LogStatic(EmptyLim, cid, 42, "Obj")
    \/ EndUpdate(EmptyLim)

SpecEmpty == Init /\ [][NextEmpty]_vars

(***************************************************************************)
(* SpecImplicit: one update call over logs whose entries address any frame *)
(* of the sim stack, the top one or one below it, with correlation IDs     *)
(* that may be carried by several frames at once.                          *)
(***************************************************************************)
ImplicitLim ==
    [log |-> ImplicitLog, stack |-> 3, upd |-> 1, track |-> TRUE,
     wb |-> FALSE,
     heap |-> FALSE]

NextImplicit ==
    \/ BeginUpdate(ImplicitLim)
    \/ \E sf \in SFs, cid \in Cids : LogEntry(ImplicitLim, sf, "C1", cid)
    \/ \E cid \in Cids : LogParameter(ImplicitLim, cid, 0, "T", 1)
    \/ \E cid \in Cids : LogType(ImplicitLim, cid, 43, "T2", 1)
    \/ \E cid \in Cids : LogInvoke(ImplicitLim, cid, 42, CodeOf("B"))
    \/ LogOsr(ImplicitLim, 1)
    \/ LogStatic(ImplicitLim, 1, 44, "Obj")
    \/ \E cid \in Cids : LogReturn(ImplicitLim, cid, 7, "T", 1)
    \/ EndUpdate(ImplicitLim)

SpecImplicit == Init /\ [][NextImplicit]_vars

(***************************************************************************)
(* SpecDrain: one update call from its first log entry to its return.  A   *)
(* call that has begun goes on running: the loop takes the next entry      *)
(* while the log has one and leaves for sim_stack_destroy when it has      *)
(* none.  EndUpdate is the one action that takes pc from "running", and    *)
(* the fairness condition is on that step.                                 *)
(***************************************************************************)
\* The step on which the loop of MVM_spesh_stats_update is left.
LeavesLoop == pc = "running" /\ pc' \in {"idle", "panic"}

DrainLim ==
    [log |-> DrainLog, stack |-> 3, upd |-> 1, track |-> TRUE, wb |-> FALSE,
     heap |-> FALSE]

NextDrain ==
    \/ BeginUpdate(DrainLim)
    \/ \E sf \in SFs, cid \in Cids : LogEntry(DrainLim, sf, "C1", cid)
    \/ \E cid \in Cids : LogParameter(DrainLim, cid, 0, "T", 1)
    \/ \E cid \in Cids : LogType(DrainLim, cid, 43, "T2", 1)
    \/ \E cid \in Cids : LogReturn(DrainLim, cid, 7, "T", 1)
    \/ EndUpdate(DrainLim)

SpecDrain == Init /\ [][NextDrain]_vars /\ WF_pc(LeavesLoop)

(***************************************************************************)
(* SpecParam: one update call over logs of ENTRY records for frames with   *)
(* no callsite and with callsites of positional and named arguments, and   *)
(* of PARAMETER and PARAMETER_DECONT records for argument indices inside   *)
(* and outside those callsites.                                            *)
(***************************************************************************)
ParamLim ==
    [log |-> ParamLog, stack |-> 2, upd |-> 1, track |-> TRUE, wb |-> FALSE,
     heap |-> FALSE]

ParamIdxs == {0, 1, 2, 3, 5, 7}

NextParam ==
    \/ BeginUpdate(ParamLim)
    \/ \E cs \in {NULL, "C0", "C2", "C3"}, cid \in Cids :
          LogEntry(ParamLim, "A", cs, cid)
    \/ \E cid \in Cids, arg_idx \in ParamIdxs :
          LogParameter(ParamLim, cid, arg_idx, "T", 1)
    \/ \E cid \in Cids, arg_idx \in ParamIdxs :
          LogParameter(ParamLim, cid, arg_idx, "T2", 0)
    \/ \E cid \in Cids, arg_idx \in {0, 5} :
          LogParameterDecont(ParamLim, cid, arg_idx, "T", 1)
    \/ EndUpdate(ParamLim)

SpecParam == Init /\ [][NextParam]_vars

(***************************************************************************)
(* SpecCount: one update call over logs shaped like those of running code, *)
(* long enough for a caller to buffer a TYPE, an INVOKE and the attributed *)
(* RETURN of its callee, and to have the call info of the callee queued.   *)
(***************************************************************************)
CountLim == [log |-> CountLog, stack |-> 2, upd |-> 1, track |-> FALSE,
     wb |-> FALSE,
     heap |-> FALSE]

NextCount ==
    \/ BeginUpdate(CountLim)
    \/ \E sf \in SFs : InBody /\ LogEntry(CountLim, sf, "C1", g_entries + 1)
    \/ /\ Len(frames) > 0
       /\ ~TopHasParameter
       /\ LogParameter(CountLim, TopCid, 0, "T", 1)
    \/ TopHasParameter /\ LogType(CountLim, TopCid, 42, "T2", 1)
    \/ TopHasParameter /\ LogInvoke(CountLim, TopCid, 42, CodeOf("B"))
    \/ \E type \in {NULL, "T2"} :
          TopHasParameter /\ LogReturn(CountLim, TopCid, 7, type, 1)
    \/ InBody /\ EndUpdate(CountLim)

SpecCount == Init /\ [][NextCount]_vars

(***************************************************************************)
(* SpecOwn: one update call that keeps track of the arg_types buffers,     *)
(* over logs of frames with and without callsite, with and without         *)
(* their PARAMETER entry, calling each other.                              *)
(***************************************************************************)
OwnLim == [log |-> OwnLog, stack |-> 2, upd |-> 1, track |-> FALSE,
     wb |-> FALSE, heap |-> TRUE]

NextOwn ==
    \/ BeginUpdate(OwnLim)
    \/ \E sf \in SFs, cs \in {NULL, "C0", "C1"} :
          LogEntry(OwnLim, sf, cs, g_entries + 1)
    \/ \E cid \in Cids, type \in {"T", "T2"} :
          LogParameter(OwnLim, cid, 0, type, 1)
    \/ LogInvoke(OwnLim, 1, 42, CodeOf("B"))
    \/ \E cid \in Cids : LogReturn(OwnLim, cid, 7, NULL, 0)
    \/ EndUpdate(OwnLim)

SpecOwn == Init /\ [][NextOwn]_vars

(***************************************************************************)
(* SpecPtr: a pointer hash table that is built, then inserted into,        *)
(* fetched from and deleted from in any order.  Four of the keys hash to   *)
(* the last bucket of a table of the initial size.                         *)
(***************************************************************************)
\* The keys of the four highest hash codes.
LastBucketKeys ==
    {k \in 0..(Pow2(HashBits) - 1) :
        MVM_ptr_hash_code(k) >= Pow2(HashBits) - 4}

PtrKeys == {NullKey, 1, 2} \cup LastBucketKeys

\* The caller makes one more operation.
PtrMore == ptr_op.n < PtrOps

NextPtr ==
    \/ \E key \in PtrKeys : PtrMore /\ PtrInsert(key, 1)
    \/ \E key \in PtrKeys : PtrMore /\ PtrLvalueFetch(key, 2)
    \/ \E key \in PtrKeys : PtrMore /\ PtrFetchAndDelete(key)

SpecPtr == Init /\ [][NextPtr]_vars

(***************************************************************************)
(* SpecChain: longer runs of inserts and deletes on fewer keys: the keys   *)
(* of the last bucket and the null pointer, so that the table is grown     *)
(* after a probe distance has reached MVM_HASH_MAX_PROBE_DISTANCE and is   *)
(* used afterwards.                                                        *)
(***************************************************************************)
ChainKeys == {NullKey} \cup LastBucketKeys

ChainMore == ptr_op.n < ChainOps

NextChain ==
    \/ \E key \in ChainKeys : ChainMore /\ PtrInsert(key, 1)
    \/ \E key \in ChainKeys : ChainMore /\ PtrFetchAndDelete(key)

SpecChain == Init /\ [][NextChain]_vars

(***************************************************************************)
(* SpecFill: the caller first inserts five keys, three of them of the last *)
(* bucket and one of the bucket before it, and then goes on in any order.  *)
(* A second key of the bucket before the last makes room for itself by     *)
(* shifting the entries of the last bucket, one more key makes cur_items   *)
(* reach the load-factor threshold, so that the next absent key grows a    *)
(* table whose slot count is what hash_true_size gives.                    *)
(***************************************************************************)
PtrMinKey(S) == CHOOSE k \in S : \A j \in S : k <= j

RECURSIVE PtrSorted(_)
PtrSorted(S) ==
    IF S = {} THEN <<>>
    ELSE <<PtrMinKey(S)>> \o PtrSorted(S \ {PtrMinKey(S)})

\* The keys of the four hash codes below those of LastBucketKeys.
NextBucketKeys ==
    {k \in 0..(Pow2(HashBits) - 1) :
        /\ MVM_ptr_hash_code(k) >= Pow2(HashBits) - 8
        /\ MVM_ptr_hash_code(k) < Pow2(HashBits) - 4}

\* The keys the caller inserts first.
FillSeq ==
    <<2>> \o SubSeq(PtrSorted(LastBucketKeys), 1, 3)
          \o SubSeq(PtrSorted(NextBucketKeys), 1, 1)

FillKeys ==
    {NullKey, 1, 2} \cup LastBucketKeys
        \cup {PtrSorted(NextBucketKeys)[i] : i \in 1..2}

Filling == ptr_op.n < Len(FillSeq)

FillMore == ~Filling /\ ptr_op.n < Len(FillSeq) + FillOps

NextFill ==
    \/ Filling /\ PtrInsert(FillSeq[ptr_op.n + 1], 1)
    \/ \E key \in FillKeys : FillMore /\ PtrInsert(key, 1)
    \/ \E key \in FillKeys : FillMore /\ PtrLvalueFetch(key, 2)
    \/ \E key \in FillKeys : FillMore /\ PtrFetchAndDelete(key)

SpecFill == Init /\ [][NextFill]_vars

(***************************************************************************)
(* Helpers of the properties.                                              *)
(***************************************************************************)
\* Sum of f over a finite set of static frames.
RECURSIVE SumOver(_, _)
SumOver(f, S) ==
    IF S = {} THEN 0
    ELSE LET x == CHOOSE y \in S : TRUE IN f[x] + SumOver(f, S \ {x})

\* Sum of the hits fields of a sequence of records.
RECURSIVE SumHits(_)
SumHits(seq) ==
    IF seq = <<>> THEN 0 ELSE seq[1].hits + SumHits(Tail(seq))

\* How often x occurs in seq.
RECURSIVE CountIn(_, _)
CountIn(seq, x) ==
    IF seq = <<>> THEN 0
    ELSE (IF seq[1] = x THEN 1 ELSE 0) + CountIn(Tail(seq), x)

\* What the running (or last) update call appended to the sink.
Pushed == SubSeq(sf_updated, sink0 + 1, Len(sf_updated))

\* An update call has completed.
Completed == pc = "idle" /\ nupd > 0

\* The frame a recorded pop removed, and the ByCallsite it belongs to.
PoppedFrame(p) == p.before.frames[Len(p.before.frames)]

PoppedCallsite(p) ==
    p.before.stats[PoppedFrame(p).sf].by_callsite[PoppedFrame(p).callsite_idx]

\* The ByType entries of a stats map, and nothing else of it.
ByTypeView(stats_map) ==
    [sf \in SFs |-> [k \in DOMAIN stats_map[sf].by_callsite |->
                        stats_map[sf].by_callsite[k].by_type]]

\* The hits of a stats map, per static frame and per callsite.
HitsView(stats_map) ==
    [sf \in SFs |-> [total |-> stats_map[sf].hits,
                     by_cs |-> [k \in DOMAIN stats_map[sf].by_callsite |->
                                  stats_map[sf].by_callsite[k].hits]]]

\* The claim's notion of a complete tuple for callsite cs.
TupleComplete(cs, arg_types) ==
    \A k \in 1..flag_count(cs) :
        arg_flags(cs)[k] = ARG_OBJ =>
            /\ arg_types[k].type # NULL
            /\ (arg_types[k].type_concrete = 1 /\ container_spec(arg_types[k].type))
                    => arg_types[k].decont_type # NULL

\* A frame's pop is to resolve a ByType.
ShouldResolve(cs, arg_types) ==
    /\ cs # NULL
    /\ \E k \in 1..flag_count(cs) : arg_flags(cs)[k] = ARG_OBJ
    /\ TupleComplete(cs, arg_types)

(***************************************************************************)
(* C1.  Callsite partition: in every reachable state, for every static     *)
(* frame the hits of its ByCallsite entries add up to SpeshStats.hits.     *)
(***************************************************************************)
C1_CallsitePartition ==
    \A sf \in SFs : SumHits(stats[sf].by_callsite) = stats[sf].hits

\* A frame with two ByCallsite entries that each were hit, between two
\* events of the second update call.
C1_Witness ==
    /\ pc = "running"
    /\ nupd = 2
    /\ \E sf \in SFs :
          /\ Len(stats[sf].by_callsite) = 2
          /\ \A k \in 1..2 : stats[sf].by_callsite[k].hits >= 1

(***************************************************************************)
(* C2.  Entry accounting: when an update call has completed, over all      *)
(* static frames SpeshStats.hits grew by the number of ENTRY records of    *)
(* the log; from frames without stats, the hits add up to that number.     *)
(***************************************************************************)
C2_EntryAccounting ==
    Completed =>
        /\ SumOver([sf \in SFs |-> stats[sf].hits - stats0[sf].hits], SFs)
              = g_entries
        /\ (\A sf \in SFs : ~stats0[sf].present) =>
              SumOver([sf \in SFs |-> stats[sf].hits], SFs) = g_entries

\* A second update call completed, over a log with ENTRY records and other
\* records, on frames that had hits before.
C2_Witness ==
    /\ Completed
    /\ nupd = 2
    /\ g_entries >= 1
    /\ \E sf \in SFs : stats0[sf].hits >= 1
    /\ nlog > g_entries + SumOver([sf \in SFs |-> stats0[sf].hits], SFs)

(***************************************************************************)
(* C3.  Tuple equality: in every reachable state any two ByType entries    *)
(* under one ByCallsite have different arg_types, and a pop whose tuple    *)
(* equals that of an existing ByType counts in that entry and appends      *)
(* none.                                                                   *)
(***************************************************************************)
C3_TupleDistinct ==
    /\ \A sf \in SFs : \A c \in DOMAIN stats[sf].by_callsite :
          LET bt == stats[sf].by_callsite[c].by_type
          IN  \A i, j \in DOMAIN bt :
                 i # j => bt[i].arg_types # bt[j].arg_types
    /\ \A t \in DOMAIN g_pops :
          LET p == g_pops[t]
              simf == PoppedFrame(p)
              was == PoppedCallsite(p).by_type
              now == p.after.stats[simf.sf].by_callsite[simf.callsite_idx].by_type
          IN  \A i \in DOMAIN was :
                 (p.idx # 0 /\ was[i].arg_types = simf.arg_types) =>
                    /\ Len(now) = Len(was)
                    /\ now[i].hits = was[i].hits + 1

\* A pop has just counted in a ByType that an earlier pop created.
C3_Witness ==
    \E t \in DOMAIN g_pops :
        LET p == g_pops[t]
            simf == PoppedFrame(p)
            was == PoppedCallsite(p).by_type
        IN  /\ p.idx # 0
            /\ \E i \in DOMAIN was : was[i].arg_types = simf.arg_types

HasOwedType(d) ==
    IF d.idx = 0 THEN FALSE
    ELSE LET bo == stats[d.sf].by_callsite[d.callsite_idx].by_type[d.idx].by_offset
         IN  \E k \in DOMAIN bo :
                /\ bo[k].bytecode_offset = d.bytecode_offset
                /\ \E m \in DOMAIN bo[k].types :
                      /\ bo[k].types[m].type = d.type
                      /\ bo[k].types[m].type_concrete = d.concrete
                      /\ bo[k].types[m].count >= 1

C5_ReturnAttributedAlways ==
    Completed => \A d \in g_done : HasOwedType(d)

(***************************************************************************)
(* C5, amended.  In every reachable state, every return type owed to a     *)
(* popped frame whose pop resolved a ByType is in the types of that        *)
(* ByType's ByOffset at the offset of the INVOKE.                          *)
(***************************************************************************)
C5_ReturnAttributed ==
    \A d \in g_done : d.idx # 0 => HasOwedType(d)

\* An update call has completed in which a return type was owed to a frame
\* whose pop resolved a ByType.
C5_Witness ==
    /\ Completed
    /\ \E d \in g_done : d.idx # 0

NestDone == pc = "idle" /\ g_nest.phase = "R" /\ g_nest.r = 5

\* max_depth of the ByCallsite of static frame sf for callsite cs.
MaxDepthOf(sf, cs) ==
    stats[sf].by_callsite[FindCallsite(stats[sf].by_callsite, cs)].max_depth

DeepestLike(chain, k) ==
    CHOOSE j \in DOMAIN chain :
        /\ chain[j].sf = chain[k].sf /\ chain[j].cs = chain[k].cs
        /\ \A m \in DOMAIN chain :
              (chain[m].sf = chain[k].sf /\ chain[m].cs = chain[k].cs) => m <= j

C8_OsrAccounting ==
    /\ \A sf \in SFs : \A c \in DOMAIN stats[sf].by_callsite :
          stats[sf].by_callsite[c].osr_hits <= stats[sf].osr_hits
    /\ Completed =>
          \A sf \in SFs : stats[sf].osr_hits - stats0[sf].osr_hits = g_osr[sf]

\* A second update call completed, with an OSR record counted for a frame
\* that had stats before and an OSR record that addressed no frame.
C8_Witness ==
    /\ Completed
    /\ nupd = 2
    /\ \E sf \in SFs : stats0[sf].present /\ g_osr[sf] >= 1
                       /\ stats[sf].osr_hits >= 1

(***************************************************************************)
(* C9.  Within one update call no static frame is appended to the sink     *)
(* more than once.                                                         *)
(***************************************************************************)
C9_PushedAtMostOnce ==
    \A sf \in SFs : CountIn(Pushed, sf) <= 1

\* A static frame that had stats before received two ENTRY records in one
\* update call and was pushed once.
C9_Witness ==
    \E sf \in SFs :
        /\ stats0[sf].present
        /\ stats[sf].hits - stats0[sf].hits >= 2
        /\ CountIn(Pushed, sf) = 1

(***************************************************************************)
(* C10.  When an update call has completed, every static frame that        *)
(* received an ENTRY record in it was pushed exactly once into the sink,   *)
(* whatever its stats were before and whatever the version counter is.     *)
(***************************************************************************)
C10_PushedOnce ==
    Completed => \A sf \in g_entered : CountIn(Pushed, sf) = 1

(***************************************************************************)
(* C11.  Cleanup: after MVM_spesh_stats_cleanup the array holds exactly    *)
(* the frames it held whose stats were present and not older than          *)
(* MAX_AGE, in their order; the stats of a frame of the array that were    *)
(* present and older are destroyed and null; all other stats are as they   *)
(* were.                                                                   *)
(***************************************************************************)
\* The stats ss are present and at most MAX_AGE versions behind ver.
Fresh(ss, ver) ==
    ss.present /\ ver - ss.last_update <= MVM_SPESH_STATS_MAX_AGE

\* The frames of seq whose stats in stats_map are fresh, in their order.
RECURSIVE FreshOf(_, _, _)
FreshOf(seq, stats_map, ver) ==
    IF seq = <<>> THEN <<>>
    ELSE (IF Fresh(stats_map[Head(seq)], ver) THEN <<Head(seq)>> ELSE <<>>)
         \o FreshOf(Tail(seq), stats_map, ver)

\* The state is the one the last call of cleanup left: since then the
\* version was not advanced and no update call began.
JustCleaned ==
    /\ g_clean.called
    /\ pc = "idle"
    /\ version = g_clean.version
    /\ nupd = g_clean.nupd

C11_CleanupFilters ==
    JustCleaned =>
        /\ sf_updated = FreshOf(g_clean.check_frames, g_clean.stats, version)
        /\ \A sf \in SFs :
              stats[sf] =
                  IF /\ \E k \in DOMAIN g_clean.check_frames :
                            g_clean.check_frames[k] = sf
                     /\ g_clean.stats[sf].present
                     /\ ~Fresh(g_clean.stats[sf], version)
                  THEN NoStats
                  ELSE g_clean.stats[sf]

\* A call of cleanup was given an array with a frame it kept, a frame whose
\* stats it destroyed and a frame whose stats were absent already.
C11_Witness ==
    /\ JustCleaned
    /\ Len(sf_updated) >= 1
    /\ \E k \in DOMAIN g_clean.check_frames :
          /\ g_clean.stats[g_clean.check_frames[k]].present
          /\ ~stats[g_clean.check_frames[k]].present
          /\ \E j \in 1..(k - 1) : g_clean.check_frames[j] = g_clean.check_frames[k]

(***************************************************************************)
(* C12.  Aging: after a call of cleanup at version v + MAX_AGE + 1, every  *)
(* static frame whose stats were last updated at a version below v has no  *)
(* stats.  (ENTRY sets last_update to the version of the update call, so   *)
(* last_update is the version the stats were last updated at.)             *)
(***************************************************************************)
C12_Aged ==
    (JustCleaned /\ version >= MVM_SPESH_STATS_MAX_AGE + 1) =>
        \A sf \in SFs :
            stats[sf].present =>
                stats[sf].last_update >= version - (MVM_SPESH_STATS_MAX_AGE + 1)

(***************************************************************************)
(* C13.  ByType and ByOffset entries are created and changed only by a     *)
(* pop: a step that consumes an ENTRY, or a PARAMETER, PARAMETER_DECONT,   *)
(* TYPE, INVOKE, OSR or STATIC entry addressed to the top sim frame,       *)
(* leaves the by_type array of every ByCallsite as it was (a ByCallsite    *)
(* the step appends has none).  On frames without stats, after ENTRY A     *)
(* cs=C1 cid=1 and PARAMETER cid=1 arg 0 type=T concrete, A has hits 1,    *)
(* one ByCallsite (C1, hits 1) and no ByType; the end of the log then      *)
(* creates the ByType (T concrete) with hits 1.                            *)
(***************************************************************************)
\* The last step consumed the log entry g_last' and it was an ENTRY or
\* addressed the frame on top of the sim stack.
TopStep(kinds) ==
    /\ nlog' = nlog + 1
    /\ g_last'.kind \in kinds
    /\ \/ g_last'.kind = "ENTRY"
       \/ Len(frames) > 0 /\ frames[Len(frames)].cid = g_last'.id

\* The step leaves every by_type array as it was.
ByTypeKept ==
    \A sf \in SFs :
        /\ Len(stats'[sf].by_callsite) >= Len(stats[sf].by_callsite)
        /\ \A k \in DOMAIN stats'[sf].by_callsite :
              stats'[sf].by_callsite[k].by_type =
                  IF k \in DOMAIN stats[sf].by_callsite
                  THEN stats[sf].by_callsite[k].by_type
                  ELSE <<>>

\* The tree of A after each step of the claim's log.
LazyScenario ==
    /\ (pc = "running" /\ nupd = 1 /\ g_scen.n = 2) =>
          /\ stats["A"].hits = 1
          /\ stats["A"].by_callsite =
                <<[cs |-> "C1", hits |-> 1, osr_hits |-> 0, max_depth |-> 0,
                   by_type |-> <<>>]>>
    /\ (pc = "idle" /\ nupd = 1 /\ g_scen.n = 2) =>
          /\ stats["A"].hits = 1
          /\ stats["A"].by_callsite =
                <<[cs |-> "C1", hits |-> 1, osr_hits |-> 0, max_depth |-> 1,
                   by_type |->
                      <<[arg_types |->
                            <<[type |-> "T", type_concrete |-> 1,
                               decont_type |-> NULL,
                               decont_type_concrete |-> 0]>>,
                         hits |-> 1, osr_hits |-> 0, max_depth |-> 1,
                         by_offset |-> <<>>]>>]>>

C13_CreatedOnPop ==
    /\ []LazyScenario
    /\ [][TopStep({"ENTRY", "PARAMETER", "PARAMETER_DECONT", "TYPE", "INVOKE",
                   "OSR", "STATIC"}) => ByTypeKept]_vars

\* A TYPE entry was consumed that addressed the top frame, whose ByCallsite
\* had a ByType already.
C13_Witness ==
    /\ g_last.kind = "TYPE"
    /\ Len(frames) > 0
    /\ frames[Len(frames)].cid = g_last.id
    /\ g_pops = <<>>
    /\ Len(stats[frames[Len(frames)].sf]
              .by_callsite[frames[Len(frames)].callsite_idx].by_type) > 0

(***************************************************************************)
(* C14.  A log entry other than an ENTRY whose correlation ID is the ID of *)
(* no frame on the sim stack is dropped: the step leaves the sim stack,    *)
(* its depth, every stats tree and the array of updated frames as they     *)
(* were and the loop goes on.  No step other than an ENTRY puts a frame on *)
(* the sim stack: what stays of the stack are the frames that were there.  *)
(***************************************************************************)
\* The step consumed a log entry other than an ENTRY.
OtherStep == nlog' = nlog + 1 /\ g_last'.kind # "ENTRY"

\* The step consumed a log entry other than an ENTRY that addressed no frame
\* of the sim stack.
DroppedStep ==
    /\ OtherStep
    /\ \A k \in DOMAIN frames : frames[k].cid # g_last'.id

C14_UnknownDropped ==
    /\ [][DroppedStep =>
            /\ stats' = stats
            /\ frames' = frames
            /\ depth' = depth
            /\ sf_updated' = sf_updated
            /\ pc' = "running"]_vars
    /\ [][OtherStep =>
            /\ Len(frames') <= Len(frames)
            /\ \A k \in DOMAIN frames' :
                  /\ frames'[k].cid = frames[k].cid
                  /\ frames'[k].sf = frames[k].sf]_vars

\* An entry was consumed that addressed a frame popped before, while another
\* frame was on the sim stack.
C14_Witness ==
    /\ pc = "running"
    /\ g_last.kind \notin {"NONE", "ENTRY"}
    /\ g_last.id <= g_entries
    /\ \A k \in DOMAIN frames : frames[k].cid # g_last.id
    /\ g_pops = <<>>
    /\ Len(frames) >= 1

(***************************************************************************)
(* C15.  STATIC entries are first-writer-wins per static frame and offset. *)
(* In every state static_values holds at most one entry per offset.  A     *)
(* step that consumes a STATIC entry addressed to a frame on the sim stack *)
(* appends (offset, value) to the static_values of that frame's static     *)
(* frame if they have no entry for the offset, whatever the frame's type   *)
(* tuple, and leaves them as they are if they have one; every other step   *)
(* of update leaves all static_values as they are.                         *)
(***************************************************************************)
\* The static frame of the topmost frame of fr with correlation ID cid.
AddressedSf(fr, cid) ==
    fr[CHOOSE k \in DOMAIN fr :
            /\ fr[k].cid = cid
            /\ \A j \in DOMAIN fr : j > k => fr[j].cid # cid].sf

\* The step consumed a STATIC entry that addressed a frame of static frame sf.
StaticStep(sf) ==
    /\ nlog' = nlog + 1
    /\ g_last'.kind = "STATIC"
    /\ \E k \in DOMAIN frames : frames[k].cid = g_last'.id
    /\ AddressedSf(frames, g_last'.id) = sf

StaticKeysDistinct ==
    \A sf \in SFs :
        \A j, k \in DOMAIN stats[sf].static_values :
            stats[sf].static_values[j].bytecode_offset =
                stats[sf].static_values[k].bytecode_offset => j = k

C15_FirstStaticWins ==
    /\ []StaticKeysDistinct
    /\ [][\A sf \in SFs :
            stats'[sf].static_values =
                IF /\ StaticStep(sf)
                   /\ \A k \in DOMAIN stats[sf].static_values :
                         stats[sf].static_values[k].bytecode_offset #
                             g_last'.bytecode_offset
                THEN Append(stats[sf].static_values,
                            [bytecode_offset |-> g_last'.bytecode_offset,
                             value |-> g_last'.value])
                ELSE stats[sf].static_values]_vars

\* A STATIC entry was consumed that addressed a frame on the sim stack whose
\* static frame has another value recorded for the offset.
C15_Witness ==
    /\ g_last.kind = "STATIC"
    /\ \E k \in DOMAIN frames : frames[k].cid = g_last.id
    /\ \E k \in DOMAIN stats[AddressedSf(frames, g_last.id)].static_values :
          /\ stats[AddressedSf(frames, g_last.id)].static_values[k].bytecode_offset
                = g_last.bytecode_offset
          /\ stats[AddressedSf(frames, g_last.id)].static_values[k].value
                # g_last.value

(***************************************************************************)
(* C16.  No sequence of the stats tree holds two entries with the same     *)
(* key: the ByCallsite entries of a SpeshStats differ in cs, the ByOffset  *)
(* entries of a ByType in bytecode_offset, the TypeCount entries of a      *)
(* ByOffset in (type, type_concrete), its ValueCount entries in value and  *)
(* its TypeTupleCount entries in (cs, arg_types).                          *)
(***************************************************************************)
\* No two entries of seq have the same Key.
Distinct(seq, Key(_)) ==
    \A j, k \in DOMAIN seq : Key(seq[j]) = Key(seq[k]) => j = k

CsKey(x) == x.cs

OffsetKey(x) == x.bytecode_offset

TypeKey(x) == <<x.type, x.type_concrete>>

ValueKey(x) == x.value

TupleKey(x) == <<x.cs, x.arg_types>>

ByOffsetDistinct(oss) ==
    /\ Distinct(oss.types, TypeKey)
    /\ Distinct(oss.values, ValueKey)
    /\ Distinct(oss.type_tuples, TupleKey)

C16_KeysDistinct ==
    \A sf \in SFs :
        /\ Distinct(stats[sf].by_callsite, CsKey)
        /\ \A c \in DOMAIN stats[sf].by_callsite :
            \A t \in DOMAIN stats[sf].by_callsite[c].by_type :
                /\ Distinct(stats[sf].by_callsite[c].by_type[t].by_offset,
                            OffsetKey)
                /\ \A o \in DOMAIN stats[sf].by_callsite[c].by_type[t].by_offset :
                      ByOffsetDistinct(
                          stats[sf].by_callsite[c].by_type[t].by_offset[o])

\* A ByOffset whose one TypeTupleCount was counted twice, in a tree where a
\* ByCallsite was hit twice.
C16_Witness ==
    \E sf \in SFs :
      \E c \in DOMAIN stats[sf].by_callsite :
        \E t \in DOMAIN stats[sf].by_callsite[c].by_type :
          \E o \in DOMAIN stats[sf].by_callsite[c].by_type[t].by_offset :
            LET oss == stats[sf].by_callsite[c].by_type[t].by_offset[o]
            IN  /\ Len(oss.type_tuples) = 1
                /\ oss.type_tuples[1].count = 2
                /\ Len(oss.values) >= 1

(***************************************************************************)
(* C17: every non-null type, decont type and value handle stored in the    *)
(* stats tree of a static frame (ByType.arg_types, TypeCount.type,         *)
(* ValueCount.value, TypeTupleCount.arg_types, StaticValue.value) has had  *)
(* a write barrier issued that names the static frame and the handle, no   *)
(* later than the step that stored it.                                     *)
(***************************************************************************)
\* The handles of a type tuple.
TupleHandles(arg_types) ==
    UNION {{arg_types[i].type, arg_types[i].decont_type} :
                i \in DOMAIN arg_types}

\* The handles stored in a ByOffset.
OffsetHandles(oss) ==
    {oss.types[k].type : k \in DOMAIN oss.types}
    \cup {oss.values[k].value : k \in DOMAIN oss.values}
    \cup UNION {TupleHandles(oss.type_tuples[k].arg_types) :
                    k \in DOMAIN oss.type_tuples}

\* The handles stored in a ByType.
ByTypeHandles(tss) ==
    TupleHandles(tss.arg_types)
    \cup UNION {OffsetHandles(tss.by_offset[o]) : o \in DOMAIN tss.by_offset}

\* The non-null handles stored in the stats tree ss.
TreeHandles(ss) ==
    (UNION {UNION {ByTypeHandles(ss.by_callsite[c].by_type[t]) :
                        t \in DOMAIN ss.by_callsite[c].by_type} :
                c \in DOMAIN ss.by_callsite}
     \cup {ss.static_values[k].value : k \in DOMAIN ss.static_values})
    \ {NULL}

C17_BarriersIssued ==
    \A sf \in SFs : \A h \in TreeHandles(stats[sf]) : <<sf, h>> \in g_barriers

\* The tree of one static frame holds a handle of each of the kinds at once:
\* a ByType with a parameter type and its decont type, a counted type, a
\* counted value, a type tuple with a decont type, and a static value.
C17_Witness ==
    \E sf \in SFs : \E c \in DOMAIN stats[sf].by_callsite :
    \E t \in DOMAIN stats[sf].by_callsite[c].by_type :
        /\ Len(stats[sf].static_values) > 0
        /\ stats[sf].by_callsite[c].by_type[t].arg_types[1].decont_type # NULL
        /\ \E o \in DOMAIN stats[sf].by_callsite[c].by_type[t].by_offset :
                Len(stats[sf].by_callsite[c].by_type[t].by_offset[o].values) > 0
        /\ \E o \in DOMAIN stats[sf].by_callsite[c].by_type[t].by_offset :
                \E k \in DOMAIN stats[sf].by_callsite[c].by_type[t]
                                    .by_offset[o].type_tuples :
                    stats[sf].by_callsite[c].by_type[t].by_offset[o]
                        .type_tuples[k].arg_types[1].decont_type # NULL

(***************************************************************************)
(* C18: an update call whose log is empty returns, and leaves the stats    *)
(* tree of every static frame, its last_update included, and the array of  *)
(* updated frames as they were when it was called.                         *)
(***************************************************************************)
\* The step that calls MVM_spesh_stats_update.
CallStep == pc = "idle" /\ pc' = "running"

\* The step that ends the loop of a call that consumed no log entry: in the
\* runs that keep track of it, g_last is NoEvent inside the loop only until
\* the first entry is consumed.
EmptyEndStep == pc = "running" /\ g_last = NoEvent /\ pc' # "running"

C18_EmptyLogNoEffect ==
    [][/\ CallStep => (stats' = stats /\ sf_updated' = sf_updated)
       /\ EmptyEndStep =>
            /\ pc' = "idle"
            /\ stats' = stats /\ stats' = stats0
            /\ sf_updated' = sf_updated /\ Len(sf_updated') = sink0]_vars

\* The second update call had an empty log and has returned: the one entry
\* consumed so far is an ENTRY of the first call.  The version counter has
\* advanced since, so that the frame's last_update is not the current version.
C18_Witness ==
    /\ pc = "idle"
    /\ nupd = 2
    /\ nlog = 1
    /\ g_entries = 0
    /\ \E sf \in SFs :
        /\ stats[sf].present
        /\ stats[sf].last_update < version
    /\ Len(sf_updated) = 1

(***************************************************************************)
(* C19: after any sequence of insert, lvalue_fetch and fetch_and_delete,   *)
(* with the grows they trigger, fetch(k) returns an entry that holds k and *)
(* the value last stored for k if k was stored and not deleted since, and  *)
(* NULL for every other key; on a table that was built and never inserted  *)
(* into it returns NULL.                                                   *)
(***************************************************************************)
\* fetch(k) returns an entry holding k and value.
PtrFetches(t, k, value) ==
    /\ MVM_ptr_hash_fetch(t, k) >= 0
    /\ PtrEntry(t, MVM_ptr_hash_fetch(t, k)).key = k
    /\ PtrEntry(t, MVM_ptr_hash_fetch(t, k)).value = value

C19_LookupComplete ==
    (ptr_pc = "ok" /\ ~ptr.ub) =>
        \A k \in PtrKeys :
            IF k \in DOMAIN ptr_map
            THEN PtrFetches(ptr, k, ptr_map[k])
            ELSE MVM_ptr_hash_fetch(ptr, k) = -1

(***************************************************************************)
(* C20: whenever lvalue_fetch grows the table, because cur_items reached   *)
(* the load-factor threshold or because max_items was zeroed when a probe  *)
(* distance reached MVM_HASH_MAX_PROBE_DISTANCE, the keys of the table     *)
(* after the grow are those before it and the new key, and every key that  *)
(* was in the table keeps its value.                                       *)
(***************************************************************************)
\* The occupied slots of t.
PtrOccupied(t) == {s \in 0..(t.slots - 1) : PtrMeta(t, s) # 0}

PtrKeySet(t) == {PtrEntry(t, s).key : s \in PtrOccupied(t)}

PtrPairs(t) ==
    {<<PtrEntry(t, s).key, PtrEntry(t, s).value>> : s \in PtrOccupied(t)}

\* A step in which lvalue_fetch, called by the caller or by insert, grows
\* the table and returns.
PtrGrowStep ==
    /\ ptr.table
    /\ ptr'.official_size > ptr.official_size
    /\ ptr_pc' = "ok"
    /\ ~ptr'.ub

C20_GrowPreserves ==
    [][PtrGrowStep =>
        /\ PtrKeySet(ptr') = PtrKeySet(ptr) \cup {ptr_op'.key}
        /\ \A p \in PtrPairs(ptr) : p[1] # ptr_op'.key => p \in PtrPairs(ptr')]_vars

(***************************************************************************)
(* C21: for any set of inserted keys and any one of them d, after          *)
(* fetch_and_delete(d) every other inserted key is still fetched with its  *)
(* value, d is fetched no more, and cur_items has gone down by exactly 1.  *)
(***************************************************************************)
\* The step is a call of fetch_and_delete(d) that has returned.
PtrDeleteStep(d) ==
    /\ ptr_op'.n = ptr_op.n + 1
    /\ ptr_op'.op = "fetch_and_delete"
    /\ ptr_op'.key = d
    /\ ~ptr'.ub

C21_DeleteStable ==
    [][\A d \in DOMAIN ptr_map :
        PtrDeleteStep(d) =>
            /\ \A k \in DOMAIN ptr_map \ {d} : PtrFetches(ptr', k, ptr_map[k])
            /\ MVM_ptr_hash_fetch(ptr', d) = -1
            /\ ptr'.cur_items = ptr.cur_items - 1]_vars

(***************************************************************************)
(* C22: after any sequence of inserts, deletes and grows, the metadata     *)
(* byte of every occupied slot i is 1 + i - ideal, where ideal is the hash *)
(* of the key of the entry stored at slot i shifted right by               *)
(* key_right_shift: the probe distances and the entries move together.     *)
(***************************************************************************)
\* The ideal slot of the entry stored at slot s.
PtrIdeal(t, s) == PtrBucket(t, PtrEntry(t, s).key)

C22_ProbeDistanceField ==
    ~ptr.ub =>
        \A s \in PtrOccupied(ptr) :
            PtrMeta(ptr, s) = 1 + s - PtrIdeal(ptr, s)

\* The table has grown with every key kept, the grow or a later insert has
\* left entries away from their ideal slots, and a delete has just moved some
\* of them back.
C22_Witness ==
    /\ ptr_pc = "ok" /\ ~ptr.ub
    /\ ptr.official_size > PTR_INITIAL_SIZE
    /\ ptr_op.op = "fetch_and_delete"
    /\ ptr_op.retval # 0
    /\ Cardinality(DOMAIN ptr_map) >= 6
    /\ \A k \in DOMAIN ptr_map : PtrFetches(ptr, k, ptr_map[k])
    /\ \E s \in PtrOccupied(ptr) :
        /\ PtrMeta(ptr, s) > 1
        /\ PtrBucket(ptr, ptr_op.key) <= s
        /\ PtrIdeal(ptr, s) >= PtrBucket(ptr, ptr_op.key)

(***************************************************************************)
(* C23: after any sequence of inserts, deletes and grows, for every pair   *)
(* of adjacent occupied slots i and i + 1 the ideal slot of i is not above *)
(* that of i + 1 and the probe distance of i + 1 is at most that of i plus *)
(* one, and an occupied slot that follows an empty slot has probe distance *)
(* 1.                                                                      *)
(***************************************************************************)
C23_RobinHoodOrder ==
    ~ptr.ub =>
        \A s \in PtrOccupied(ptr) :
            IF s > 0 /\ (s - 1) \in PtrOccupied(ptr)
            THEN /\ PtrIdeal(ptr, s - 1) <= PtrIdeal(ptr, s)
                 /\ PtrMeta(ptr, s) <= PtrMeta(ptr, s - 1) + 1
            ELSE PtrMeta(ptr, s) = 1

\* An insert has just made room for its key: the entry after it belongs to a
\* later bucket and was moved one slot along.
C23_Witness ==
    /\ ptr_pc = "ok" /\ ~ptr.ub
    /\ ptr_op.op = "insert"
    /\ ptr_op.entry >= 0
    /\ PtrEntry(ptr, ptr_op.entry).key = ptr_op.key
    /\ PtrMeta(ptr, ptr_op.entry) > 1
    /\ (ptr_op.entry + 1) \in PtrOccupied(ptr)
    /\ PtrIdeal(ptr, ptr_op.entry) < PtrIdeal(ptr, ptr_op.entry + 1)
    /\ PtrMeta(ptr, ptr_op.entry + 1) > 1

(***************************************************************************)
(* C24: after any sequence of insert, lvalue_fetch and fetch_and_delete,   *)
(* for any keys the interface accepts, cur_items is the number of non-zero *)
(* metadata bytes of the slots of the table.                               *)
(***************************************************************************)
C24_CurItemsCounts ==
    (ptr_pc = "ok" /\ ~ptr.ub) =>
        ptr.cur_items = Cardinality(PtrOccupied(ptr))

PtrAllKeys == 0..(Pow2(HashBits) - 1)

\* No metadata byte of a slot is above MVM_HASH_MAX_PROBE_DISTANCE.
PtrDistancesBounded ==
    \A s \in PtrOccupied(ptr) : PtrMeta(ptr, s) <= MVM_HASH_MAX_PROBE_DISTANCE

\* No access outside the allocation has happened: no probe loop has left
\* the metadata and no make-room shift has run into the end sentinel.
PtrInsideAllocation == ~ptr.ub

C26_ProbesBounded ==
    (ptr.table /\ ptr_pc = "ok") =>
        /\ PtrDistancesBounded
        /\ PtrInsideAllocation
        /\ \A key \in PtrAllKeys :
            ~PtrProbeAborts(ptr, key, 1, PtrBucket(ptr, key))

(***************************************************************************)
(* C27: lvalue_fetch of a key that is already in the table never grows or  *)
(* otherwise changes the table, also when cur_items >= max_items           *)
(* (max_items = 0 included): official_size, key_right_shift, cur_items,    *)
(* the metadata and the position of every entry stay as they are, and the  *)
(* entry that holds the key is returned.                                   *)
(***************************************************************************)
\* The step is a call of lvalue_fetch(key) that has returned, made on a table
\* that held key.
PtrRefetchStep(key) ==
    /\ ptr_op'.n = ptr_op.n + 1
    /\ ptr_op'.op = "lvalue_fetch"
    /\ ptr_op'.key = key
    /\ ptr.table
    /\ MVM_ptr_hash_fetch(ptr, key) >= 0

\* The key stored in every slot of t.
PtrPositions(t) == [s \in 0..(t.slots - 1) |-> PtrEntry(t, s).key]

C27_RefetchChangesNothing ==
    [][\A key \in PtrAllKeys :
        PtrRefetchStep(key) =>
            /\ ptr_pc' = "ok"
            /\ ptr_op'.entry = MVM_ptr_hash_fetch(ptr, key)
            /\ ptr'.official_size = ptr.official_size
            /\ ptr'.key_right_shift = ptr.key_right_shift
            /\ ptr'.cur_items = ptr.cur_items
            /\ ptr'.max_items = ptr.max_items
            /\ ptr'.metadata = ptr.metadata
            /\ PtrPositions(ptr') = PtrPositions(ptr)]_vars

(***************************************************************************)
(* C28: insert(key, value) on a table that holds key with another value    *)
(* ends in MVM_oops and leaves the stored value as it is; insert of a key  *)
(* the table holds with the same value changes nothing; insert of a key    *)
(* the table does not hold stores key and value and raises cur_items by    *)
(* exactly 1.                                                              *)
(***************************************************************************)
\* The step is a call of insert(key, value).
PtrInsertStep(key, value) ==
    /\ ptr_op'.n = ptr_op.n + 1
    /\ ptr_op'.op = "insert"
    /\ ptr_op'.key = key
    /\ ptr_op'.value = value

\* The table holds key: fetch finds an entry for it.
PtrHolds(t, key) == t.table /\ MVM_ptr_hash_fetch(t, key) >= 0

\* The value the table holds for key.
PtrValueOf(t, key) == PtrEntry(t, MVM_ptr_hash_fetch(t, key)).value

C28_InsertContract ==
    [][\A key \in PtrAllKeys : \A value \in 1..2 :
        PtrInsertStep(key, value) =>
            IF PtrHolds(ptr, key) /\ PtrValueOf(ptr, key) # value
            THEN /\ ptr_pc' = "oops"
                 /\ PtrHolds(ptr', key)
                 /\ PtrValueOf(ptr', key) = PtrValueOf(ptr, key)
            ELSE IF PtrHolds(ptr, key)
            THEN /\ ptr_pc' = "ok"
                 /\ ptr' = ptr
            ELSE /\ ptr_pc' # "oops"
                 /\ ptr_pc' = "ok" =>
                        /\ PtrHolds(ptr', key)
                        /\ PtrValueOf(ptr', key) = value
                        /\ ptr'.cur_items = ptr.cur_items + 1]_vars

(***************************************************************************)
(* C29: fetch_and_delete(key) returns the value the table holds for key    *)
(* and removes the key, when the table holds it; when it does not, or the  *)
(* table was never allocated, it returns 0 and leaves the table (metadata, *)
(* entries, cur_items) as it is.                                           *)
(***************************************************************************)
\* The step is a call of fetch_and_delete that has returned; ptr_op' holds
\* its key and what it returned.
PtrRemoveStep ==
    /\ ptr_op'.n = ptr_op.n + 1
    /\ ptr_op'.op = "fetch_and_delete"

\* The table held key: it hands back the value, key is gone and every other
\* entry is kept.
PtrRemoved(key) ==
    /\ ptr_op'.retval = PtrValueOf(ptr, key)
    /\ ~ptr'.ub
    /\ ~PtrHolds(ptr', key)
    /\ PtrPairs(ptr') = PtrPairs(ptr) \ {<<key, PtrValueOf(ptr, key)>>}
    /\ \A k \in PtrAllKeys \ {key} :
            PtrHolds(ptr, k) =>
                /\ PtrHolds(ptr', k)
                /\ PtrValueOf(ptr', k) = PtrValueOf(ptr, k)

MatchAt(fr, cid) ==
    CHOOSE k \in DOMAIN fr :
        /\ fr[k].cid = cid
        /\ \A j \in DOMAIN fr : fr[j].cid = cid => j <= k

\* The step consumed a log entry other than an ENTRY whose correlation ID
\* is carried by a frame of the sim stack but not by the top one.
ImplicitStep ==
    /\ OtherStep
    /\ \E k \in DOMAIN frames : frames[k].cid = g_last'.id
    /\ frames[Len(frames)].cid # g_last'.id

\* The sim state after the frames above index k are popped one at a time.
AfterPops(k) == PopN(Cur, Len(frames) - k)

\* The step gives what the entry does once the frames above index k are gone.
AppliedAfterPops(k) ==
    LET r == HandleEvent(AfterPops(k), version, sf_updated, g_last')
    IN  /\ stats' = r.st.stats
        /\ frames' = r.st.frames
        /\ depth' = r.st.depth
        /\ sf_updated' = r.sink
        /\ Len(frames') = IF g_last'.kind = "RETURN" THEN k - 1 ELSE k
        /\ pc' = "running"

\* The pops of the step are those of the frames above index k, the topmost
\* first, each a whole sim_stack_pop of the state the one before left.
PoppedFromTheTop(k) ==
    /\ Len(g_pops') >= Len(frames) - k
    /\ \A i \in 1..(Len(frames) - k) :
          /\ g_pops'[i].before = (IF i = 1 THEN Cur ELSE g_pops'[i - 1].after)
          /\ Len(g_pops'[i].before.frames) = Len(frames) - i + 1
          /\ g_pops'[i].after = sim_stack_pop(g_pops'[i].before)
    /\ g_pops'[Len(frames) - k].after = AfterPops(k)

\* Frame f is frame g but for call type info added at the end.
SameButCallInfo(f, g) ==
    /\ [f EXCEPT !.call_type_info = <<>>] = [g EXCEPT !.call_type_info = <<>>]
    /\ Len(f.call_type_info) >= Len(g.call_type_info)
    /\ SubSeq(f.call_type_info, 1, Len(g.call_type_info)) = g.call_type_info

C30_ImplicitReturn ==
    [][ImplicitStep =>
          LET k == MatchAt(frames, g_last'.id)
          IN  /\ AppliedAfterPops(k)
              /\ PoppedFromTheTop(k)
              /\ Len(AfterPops(k).frames) = k
              /\ \A j \in 1..(k - 1) : AfterPops(k).frames[j] = frames[j]
              /\ SameButCallInfo(AfterPops(k).frames[k], frames[k])]_vars

\* The same with every frame up to the frame found as it was.
C30_FramesUnchanged ==
    [][ImplicitStep =>
          LET k == MatchAt(frames, g_last'.id)
          IN  /\ AppliedAfterPops(k)
              /\ PoppedFromTheTop(k)
              /\ Len(AfterPops(k).frames) = k
              /\ \A j \in 1..k : AfterPops(k).frames[j] = frames[j]]_vars

\* An entry has popped two frames to reach a frame below them.
C30_Witness ==
    /\ pc = "running"
    /\ g_last.kind \notin {"NONE", "ENTRY", "RETURN"}
    /\ Len(g_pops) = 2
    /\ Len(frames) = 1
    /\ frames[1].cid = g_last.id
    /\ g_pops[1].before.frames[2].cid # g_last.id

(***************************************************************************)
(* C32.  No pop of an empty sim stack.  Whatever the log holds, entries    *)
(* for correlation IDs no frame carries and RETURN entries before any      *)
(* ENTRY included, MVM_spesh_stats_update never reaches the MVM_panic of   *)
(* sim_stack_pop: every pop finds a frame to pop, and the depth counter is *)
(* the number of frames on the sim stack before and after every pop and    *)
(* after every log entry.                                                  *)
(***************************************************************************)
C32_NoEmptyPop ==
    /\ pc # "panic"
    /\ depth = Len(frames)
    /\ \A i \in DOMAIN g_pops :
          /\ Len(g_pops[i].before.frames) >= 1
          /\ ~g_pops[i].after.panic
          /\ g_pops[i].before.depth = Len(g_pops[i].before.frames)
          /\ g_pops[i].after.depth = Len(g_pops[i].after.frames)

\* A RETURN entry was consumed before any ENTRY, with the sim stack empty.
C32_Witness ==
    /\ pc = "running"
    /\ g_last.kind = "RETURN"
    /\ g_entries = 0
    /\ frames = <<>>
    /\ g_pops = <<>>

(***************************************************************************)
(* C31.  Every frame is popped once.  MVM_spesh_stats_update returns with  *)
(* the sim stack empty.  Only an ENTRY puts a frame on the sim stack, one  *)
(* frame; every pop takes the frame that is then on top, so frames leave   *)
(* in the reverse of the order they came in; and at every moment of an     *)
(* update call the frames pushed are the frames popped so far and the      *)
(* frames on the stack, so that at its end each has been popped exactly    *)
(* once.  The frames the end of the log finds on the stack are popped as   *)
(* RETURN entries addressed to them, top first, would pop them: the stats  *)
(* are the same.                                                           *)
(***************************************************************************)
\* The pops counted in g_popped.
TotalPopped == SumOver(g_popped, PopKeys)

\* What tells one frame of the sim stack from another.
FrameIdent(f) == <<f.cid, f.sf, f.callsite_idx>>

\* Frame sequence fr2 is fr1 without its top frame.
TopRemoved(fr1, fr2) ==
    /\ Len(fr1) >= 1
    /\ Len(fr2) = Len(fr1) - 1
    /\ \A j \in DOMAIN fr2 : FrameIdent(fr2[j]) = FrameIdent(fr1[j])

\* The pops of the step each take the top frame of what the one before left.
PopsInOrder ==
    \A i \in DOMAIN g_pops' :
        /\ g_pops'[i].before = (IF i = 1 THEN Cur ELSE g_pops'[i - 1].after)
        /\ TopRemoved(g_pops'[i].before.frames, g_pops'[i].after.frames)

\* The step leaves the frames its pops did not take, and one more if it
\* consumed an ENTRY.
StackAfterStep(pushes) ==
    /\ Len(g_pops') <= Len(frames)
    /\ Len(frames') = Len(frames) - Len(g_pops') + pushes
    /\ \A j \in 1..(Len(frames) - Len(g_pops')) :
          FrameIdent(frames'[j]) = FrameIdent(frames[j])

\* An explicit return without a return type for the top frame of st.
ReturnTop(st) ==
    HandleReturn(st, Event("RETURN", st.frames[Len(st.frames)].cid, NULL, NULL,
                           0, NULL, 0, 0, NULL))

\* An explicit return for every frame of st, the top one first.
RECURSIVE ReturnAll(_)
ReturnAll(st) == IF Len(st.frames) = 0 THEN st ELSE ReturnAll(ReturnTop(st))

\* The step is the end of an update call.
EndStep == pc = "running" /\ pc' # "running" /\ nlog' = nlog

\* The step consumed a log entry.
LogStep == nlog' = nlog + 1

C31_PoppedOnce ==
    /\ (pc = "running") ~> (pc = "idle" /\ frames = <<>>)
    /\ [](/\ pc = "idle" => frames = <<>>
          /\ pc = "running" => ~sim_stack_destroy(Cur).panic
          /\ g_entries = Len(frames) + TotalPopped)
    /\ [][LogStep =>
            /\ PopsInOrder
            /\ StackAfterStep(IF g_last'.kind = "ENTRY" THEN 1 ELSE 0)
            /\ g_last'.kind = "ENTRY" => g_pops' = <<>>]_vars
    /\ [][EndStep =>
            /\ pc' = "idle"
            /\ frames' = <<>>
            /\ PopsInOrder
            /\ Len(g_pops') = Len(frames)
            /\ stats' = ReturnAll(Cur).stats]_vars

\* The log ended with two frames on the sim stack, one of them with data
\* logged at an offset that its pop put into a ByType.
C31_Witness ==
    /\ pc = "idle"
    /\ Len(g_pops) = 2
    /\ TotalPopped = g_entries
    /\ \E i \in DOMAIN g_pops :
          /\ g_pops[i].idx # 0
          /\ PoppedFrame(g_pops[i]).offset_logs # <<>>

(***************************************************************************)
(* C33.  Parameter slots.  A PARAMETER or PARAMETER_DECONT entry with      *)
(* argument index idx for a frame of the sim stack with callsite cs        *)
(* concerns slot flag_idx of the frame's argument tuple: idx itself for a  *)
(* positional argument, num_pos + k for the value of the k-th named        *)
(* argument, which has index num_pos + 2k + 1.  A flag_idx of flag_count   *)
(* or more is the panic.  If the flag of the slot is an object flag the    *)
(* entry writes the slot, type and concreteness for a PARAMETER, the       *)
(* decontainerized type and its concreteness for a PARAMETER_DECONT,       *)
(* whatever an earlier entry wrote there, and nothing else of the tuple.   *)
(* If the flag is not an object flag, or the frame has the null callsite,  *)
(* the tuple stays as it is.                                               *)
(***************************************************************************)
\* The step consumed a PARAMETER or PARAMETER_DECONT entry for a frame of
\* the sim stack.
ParamStep ==
    /\ LogStep
    /\ g_last'.kind \in {"PARAMETER", "PARAMETER_DECONT"}
    /\ \E k \in DOMAIN frames : frames[k].cid = g_last'.id

\* Index idx is that of a positional argument of cs or of the value of a
\* named one.
IsArgValue(cs, idx) == idx < num_pos(cs) \/ (idx - num_pos(cs)) % 2 = 1

\* The flag of such an index.
FlagOf(cs, idx) ==
    IF idx < num_pos(cs) THEN idx
    ELSE num_pos(cs) + ((idx - num_pos(cs) - 1) \div 2)

\* Slot old as entry e leaves it when it writes it.
Written(old, e) ==
    IF e.kind = "PARAMETER"
    THEN [type |-> e.type,
          type_concrete |-> ConcreteBit(e.flags),
          decont_type |-> old.decont_type,
          decont_type_concrete |-> old.decont_type_concrete]
    ELSE [type |-> old.type,
          type_concrete |-> old.type_concrete,
          decont_type |-> e.type,
          decont_type_concrete |-> ConcreteBit(e.flags)]

\* What entry e does to frame k of st, the top frame, with callsite cs.
ParamEffect(st, k, cs, e) ==
    IF cs = NULL
    THEN pc' = "running" /\ frames' = st.frames
    ELSE IF ~IsArgValue(cs, e.arg_idx)
    THEN TRUE
    ELSE IF FlagOf(cs, e.arg_idx) >= flag_count(cs)
    THEN pc' = "panic"
    ELSE IF arg_flags(cs)[FlagOf(cs, e.arg_idx) + 1] = ARG_OBJ
    THEN /\ pc' = "running"
         /\ frames' = [st.frames EXCEPT
                ![k].arg_types[FlagOf(cs, e.arg_idx) + 1] = Written(@, e)]
    ELSE pc' = "running" /\ frames' = st.frames

C33_ParameterSlot ==
    [][ParamStep =>
          LET k == MatchAt(frames, g_last'.id)
          IN  /\ ParamEffect(AfterPops(k), k, FrameCallsite(AfterPops(k), k),
                             g_last')
              /\ stats' = AfterPops(k).stats]_vars

\* The value of the second named argument of a frame with callsite C3 was
\* written over what an earlier entry had written.
C33_Witness ==
    /\ pc = "running"
    /\ g_last.kind = "PARAMETER"
    /\ g_last.arg_idx = 5
    /\ g_last.type = "T2"
    /\ Len(frames) = 1
    /\ FrameCallsite(Cur, 1) = "C3"
    /\ frames[1].arg_types[4].type = "T2"
    /\ frames[1].arg_types[4].decont_type = "T"
    /\ frames[1].arg_types[1] = ZeroType
    /\ nlog = 3

(***************************************************************************)
(* C34.  The forced grow.  When an insertion has written the probe         *)
(* distance MVM_HASH_MAX_PROBE_DISTANCE into a metadata byte, for the new  *)
(* entry or for one it moved, max_items is 0 when it returns.  From then   *)
(* on max_items stays 0 as long as the table is not grown: a delete does   *)
(* not change it.  The next lvalue_fetch of a key the table does not hold, *)
(* called by the caller or by insert, grows the table, and the key is in   *)
(* the grown table when it returns.                                        *)
(***************************************************************************)
\* The table is one the caller can go on using.
PtrUsable(t) == t.table /\ ~t.ub

\* Some slot of t has the highest probe distance.
PtrHasMax(t) ==
    \E s \in PtrOccupied(t) : PtrMeta(t, s) = MVM_HASH_MAX_PROBE_DISTANCE

\* The step is a call of insert or lvalue_fetch that returned.
PtrStoreStep ==
    /\ ptr_op'.n = ptr_op.n + 1
    /\ ptr_op'.op \in {"insert", "lvalue_fetch"}
    /\ ptr_pc' = "ok"
    /\ PtrUsable(ptr')

\* The step wrote the highest probe distance into a byte of the table.
PtrWroteMax ==
    \E s \in PtrOccupied(ptr') :
        /\ PtrMeta(ptr', s) = MVM_HASH_MAX_PROBE_DISTANCE
        /\ \/ ~ptr.table
           \/ ptr'.official_size # ptr.official_size
           \/ PtrMeta(ptr, s) # MVM_HASH_MAX_PROBE_DISTANCE
           \/ PtrEntry(ptr, s).key # PtrEntry(ptr', s).key

\* The step is a call of insert or lvalue_fetch, for a key the table did not
\* hold, on a table with max_items = 0.
PtrForcedStep ==
    /\ PtrStoreStep
    /\ ptr.table
    /\ ptr.max_items = 0
    /\ MVM_ptr_hash_fetch(ptr, ptr_op'.key) = -1

PoppedByTypes(p, stats_map) ==
    stats_map[PoppedFrame(p).sf].by_callsite[PoppedFrame(p).callsite_idx].by_type

\* The by_offset array of the ByType pop p resolved, before the pop and
\* after it.
OffsetsBefore(p) ==
    IF p.idx <= Len(PoppedByTypes(p, p.before.stats))
    THEN PoppedByTypes(p, p.before.stats)[p.idx].by_offset
    ELSE <<>>

OffsetsAfter(p) == PoppedByTypes(p, p.after.stats)[p.idx].by_offset

\* The keys of the type tuples of a by_offset array, as call infos.
TupleInfos(oss) ==
    UNION {{[bytecode_offset |-> oss[i].bytecode_offset,
             cs |-> oss[i].type_tuples[j].cs,
             arg_types |-> oss[i].type_tuples[j].arg_types] :
                j \in DOMAIN oss[i].type_tuples} : i \in DOMAIN oss}

\* The counts of a sequence of records, added up.
RECURSIVE SumCounts(_)
SumCounts(seq) ==
    IF seq = <<>> THEN 0 ELSE seq[1].count + SumCounts(Tail(seq))

\* The count a by_offset array has for the key of call info info.
\* The type tuples with the callsite and argument types of info.
TuplesLike(type_tuples, info) ==
    SelectSeq(type_tuples,
              LAMBDA t : t.cs = info.cs /\ t.arg_types = info.arg_types)

\* The count a by_offset array has for the key of call info info: the type
\* tuples of that key in the entries for the offset.
RECURSIVE TupleCountOf(_, _)
TupleCountOf(oss, info) ==
    IF oss = <<>> THEN 0
    ELSE (IF oss[1].bytecode_offset = info.bytecode_offset
          THEN SumCounts(TuplesLike(oss[1].type_tuples, info))
          ELSE 0)
         + TupleCountOf(Tail(oss), info)

\* The pop p queued what it had to on the frame below, and nothing else.
CallInfoQueued(p) ==
    LET n == Len(p.before.frames)
        F == PoppedFrame(p)
    IN  n >= 2 =>
          LET caller == p.before.frames[n - 1]
          IN  IF /\ p.idx # 0
                 /\ IsConcreteCode(caller.last_invoke_code)
                 /\ CodeSf(caller.last_invoke_code) = F.sf
              THEN p.after.frames[n - 1] =
                     [caller EXCEPT !.call_type_info =
                        Append(@, [bytecode_offset |-> caller.last_invoke_offset,
                                   cs |-> PoppedCallsite(p).cs,
                                   arg_types |-> F.arg_types])]
              ELSE p.after.frames[n - 1] = caller

\* The pop p counted the call infos queued on its frame, and nothing else.
CallInfosCounted(p) ==
    p.idx # 0 =>
        \A info \in TupleInfos(OffsetsAfter(p))
                    \cup TupleInfos(OffsetsBefore(p))
                    \cup {PoppedFrame(p).call_type_info[i] :
                            i \in DOMAIN PoppedFrame(p).call_type_info} :
            TupleCountOf(OffsetsAfter(p), info) =
                TupleCountOf(OffsetsBefore(p), info)
                + CountIn(PoppedFrame(p).call_type_info, info)

C35_CalleeTuples ==
    \A i \in DOMAIN g_pops :
        CallInfoQueued(g_pops[i]) /\ CallInfosCounted(g_pops[i])

\* A frame was popped with two call infos of the same key queued on it, and
\* its ByType has the count 2 for the key.
C35_Witness ==
    \E i \in DOMAIN g_pops :
        /\ g_pops[i].idx # 0
        /\ Len(PoppedFrame(g_pops[i]).call_type_info) = 2
        /\ PoppedFrame(g_pops[i]).call_type_info[1]
              = PoppedFrame(g_pops[i]).call_type_info[2]
        /\ TupleCountOf(OffsetsAfter(g_pops[i]),
                        PoppedFrame(g_pops[i]).call_type_info[1]) = 2

\* ---------------------------------------------------------------------
\* Count conservation at pop (sim_stack_pop, the loops over offset_logs
\* and call_type_info).

\* The offsets a by_offset array or a sequence of logs mentions.
OffsetsOf(seq) == {seq[i].bytecode_offset : i \in DOMAIN seq}

\* The TypeCount entries for type and concrete bit conc.
TypesLike(types, type, conc) ==
    SelectSeq(types, LAMBDA t : t.type = type /\ t.type_concrete = conc)

\* The count a by_offset array has for (type, conc) at offset o.
RECURSIVE TypeCountOf(_, _, _, _)
TypeCountOf(oss, o, type, conc) ==
    IF oss = <<>> THEN 0
    ELSE (IF oss[1].bytecode_offset = o
          THEN SumCounts(TypesLike(oss[1].types, type, conc))
          ELSE 0)
         + TypeCountOf(Tail(oss), o, type, conc)

\* The ValueCount entries for value v.
ValuesLike(values, v) == SelectSeq(values, LAMBDA t : t.value = v)

\* The count a by_offset array has for value v at offset o.
RECURSIVE ValueCountOf(_, _, _)
ValueCountOf(oss, o, v) ==
    IF oss = <<>> THEN 0
    ELSE (IF oss[1].bytecode_offset = o
          THEN SumCounts(ValuesLike(oss[1].values, v))
          ELSE 0)
         + ValueCountOf(Tail(oss), o, v)

\* All TypeCount and ValueCount counts of a by_offset array, added up.
RECURSIVE EventCounts(_)
EventCounts(oss) ==
    IF oss = <<>> THEN 0
    ELSE SumCounts(oss[1].types) + SumCounts(oss[1].values)
         + EventCounts(Tail(oss))

\* All type tuple counts of a by_offset array, added up.
RECURSIVE TupleCounts(_)
TupleCounts(oss) ==
    IF oss = <<>> THEN 0
    ELSE SumCounts(oss[1].type_tuples) + TupleCounts(Tail(oss))

\* The buffered logs of the frame of pop p that are TYPE or RETURN events
\* of the key (o, type, conc).
TypeLogs(p, o, type, conc) ==
    {i \in DOMAIN PoppedFrame(p).offset_logs :
        LET e == PoppedFrame(p).offset_logs[i]
        IN  /\ e.kind \in {"TYPE", "RETURN"}
            /\ e.bytecode_offset = o
            /\ e.type = type
            /\ ConcreteBit(e.flags) = conc}

\* The buffered logs of the frame of pop p that are INVOKE events of the
\* key (o, v).
ValueLogs(p, o, v) ==
    {i \in DOMAIN PoppedFrame(p).offset_logs :
        LET e == PoppedFrame(p).offset_logs[i]
        IN  e.kind = "INVOKE" /\ e.bytecode_offset = o /\ e.value = v}

\* Each buffered event raised the count of its key by 1: per key, the count
\* after the pop is the count before it plus the number of buffered events
\* of the key; the keys of a ByOffset stay distinct, so one TypeCount or one
\* ValueCount holds the count of a key.
EventsCounted(p) ==
    LET offs == OffsetsOf(OffsetsBefore(p)) \cup OffsetsOf(OffsetsAfter(p))
                \cup OffsetsOf(PoppedFrame(p).offset_logs)
    IN  /\ \A o \in offs, type \in Types \cup {NULL}, conc \in {0, 1} :
              TypeCountOf(OffsetsAfter(p), o, type, conc) =
                  TypeCountOf(OffsetsBefore(p), o, type, conc)
                  + Cardinality(TypeLogs(p, o, type, conc))
        /\ \A o \in offs, v \in Values \cup {NULL} :
              ValueCountOf(OffsetsAfter(p), o, v) =
                  ValueCountOf(OffsetsBefore(p), o, v)
                  + Cardinality(ValueLogs(p, o, v))
        /\ \A i \in DOMAIN OffsetsAfter(p) : ByOffsetDistinct(OffsetsAfter(p)[i])
        /\ EventCounts(OffsetsAfter(p)) =
              EventCounts(OffsetsBefore(p)) + Len(PoppedFrame(p).offset_logs)

\* The by_offset arrays of every ByType but the one pop p resolved are what
\* they were.
OtherCountsKept(p) ==
    \A sf \in SFs :
        \A ci \in DOMAIN p.before.stats[sf].by_callsite :
            \A ti \in DOMAIN p.before.stats[sf].by_callsite[ci].by_type :
                \/ /\ sf = PoppedFrame(p).sf
                   /\ ci = PoppedFrame(p).callsite_idx
                   /\ ti = p.idx
                \/ p.after.stats[sf].by_callsite[ci].by_type[ti].by_offset =
                      p.before.stats[sf].by_callsite[ci].by_type[ti].by_offset

\* C36 (as stated): when a frame with a resolved ByType is popped, each
\* buffered TYPE, RETURN or INVOKE event raises the count of its key by 1,
\* the counts added under the ByType add up to the number of buffered
\* events, and no other count in the tree changes, the type tuple counts
\* of the ByType included.
C36_OnlyEventCounts ==
    \A i \in DOMAIN g_pops :
        LET p == g_pops[i]
        IN  p.idx # 0 =>
              /\ EventsCounted(p)
              /\ OtherCountsKept(p)
              /\ TupleCounts(OffsetsAfter(p)) = TupleCounts(OffsetsBefore(p))
              /\ EventCounts(OffsetsAfter(p)) + TupleCounts(OffsetsAfter(p)) =
                    EventCounts(OffsetsBefore(p)) + TupleCounts(OffsetsBefore(p))
                    + Len(PoppedFrame(p).offset_logs)

\* C36 (amended): when a frame with a resolved ByType is popped, each
\* buffered TYPE or attributed RETURN event raises by exactly 1 the count of
\* the one TypeCount keyed by (type, concrete bit) in the ByOffset of the
\* event's offset, each buffered INVOKE raises by exactly 1 the count of the
\* one ValueCount keyed by its value at its offset, so the TypeCount and
\* ValueCount counts added under the ByType add up to the number of
\* buffered events; the type tuple counts of the ByType rise by the number
\* of call infos queued on the frame, and no count of another ByType
\* changes.
C36_CountConservation ==
    \A i \in DOMAIN g_pops :
        LET p == g_pops[i]
        IN  p.idx # 0 =>
              /\ EventsCounted(p)
              /\ OtherCountsKept(p)
              /\ CallInfosCounted(p)
              /\ TupleCounts(OffsetsAfter(p)) =
                    TupleCounts(OffsetsBefore(p))
                    + Len(PoppedFrame(p).call_type_info)

\* A frame was popped with an INVOKE, an attributed RETURN and a call info
\* buffered on it, and its ByType counted all three.
C36_Witness ==
    \E i \in DOMAIN g_pops :
        LET p == g_pops[i]
            logs == PoppedFrame(p).offset_logs
        IN  /\ p.idx # 0
            /\ \E j \in DOMAIN logs : logs[j].kind = "INVOKE"
            /\ \E j \in DOMAIN logs : logs[j].kind = "RETURN"
            /\ PoppedFrame(p).call_type_info # <<>>
            /\ EventCounts(OffsetsAfter(p)) =
                  EventCounts(OffsetsBefore(p)) + Len(logs)
            /\ TupleCounts(OffsetsAfter(p)) > TupleCounts(OffsetsBefore(p))

\* ---------------------------------------------------------------------
\* Ownership of the arg_types buffers (sim_stack_push, by_type,
\* sim_stack_pop).

\* The identities of the ByTypes of the tree.
ByTypeIds ==
    UNION {UNION {{<<sf, ci, ti>> :
                     ti \in DOMAIN stats[sf].by_callsite[ci].by_type} :
                  ci \in DOMAIN stats[sf].by_callsite} : sf \in SFs}

\* The buffer of frame k is allocated, not freed and of no ByType, and of
\* no other frame.
FrameBufLive(k) ==
    LET b == g_heap.frame_buf[k]
        cs == stats[frames[k].sf].by_callsite[frames[k].callsite_idx].cs
    IN  /\ (b = 0) = (cs = NULL)
        /\ b # 0 =>
              /\ g_heap.bufs[b] = [frees |-> 0, owners |-> {}]
              /\ \A j \in DOMAIN frames : j # k => g_heap.frame_buf[j] # b

\* Buffer b, of a frame that was popped, was freed once or is the
\* arg_types of one ByType of the tree.
PoppedBufSettled(b) ==
    \/ g_heap.bufs[b].frees = 1 /\ g_heap.bufs[b].owners = {}
    \/ /\ g_heap.bufs[b].frees = 0
       /\ Cardinality(g_heap.bufs[b].owners) = 1
       /\ g_heap.bufs[b].owners \subseteq ByTypeIds

\* The call type infos of frame k point to buffers of ByTypes of the tree,
\* and hold their types.
CallInfoAlive(k) ==
    /\ Len(g_heap.call_bufs[k]) = Len(frames[k].call_type_info)
    /\ \A i \in DOMAIN g_heap.call_bufs[k] :
          LET b == g_heap.call_bufs[k][i]
          IN  /\ b # 0
              /\ g_heap.bufs[b].frees = 0
              /\ \E id \in ByTypeIds :
                    /\ g_heap.bufs[b].owners = {id}
                    /\ stats[id[1]].by_callsite[id[2]].by_type[id[3]].arg_types
                          = frames[k].call_type_info[i].arg_types

\* C37: the arg_types buffer a sim frame got at ENTRY is, once the frame is
\* popped, freed exactly once or the arg_types of exactly one ByType, never
\* both and never neither, and until then neither; no freed buffer is
\* read; no buffer is the arg_types of two ByTypes and every ByType has a
\* buffer of its own; every call type info queued on a frame points to the
\* buffer of a ByType of the tree.
C37_SingleOwner ==
    /\ Len(g_heap.frame_buf) = Len(frames)
    /\ Len(g_heap.call_bufs) = Len(frames)
    /\ \A k \in DOMAIN frames : FrameBufLive(k) /\ CallInfoAlive(k)
    /\ \A b \in DOMAIN g_heap.bufs :
          \/ \E k \in DOMAIN frames : g_heap.frame_buf[k] = b
          \/ PoppedBufSettled(b)
    /\ ~g_heap.bad_read
    /\ \A id \in ByTypeIds :
          Cardinality({b \in DOMAIN g_heap.bufs : id \in g_heap.bufs[b].owners})
              = 1

\* The update call is over, having freed a buffer whose frame found its
\* ByType, one whose frame had no complete tuple, and handed two buffers to
\* new ByTypes, one of which a call type info pointed to at a caller's pop.
C37_Witness ==
    /\ pc = "idle"
    /\ nupd = 1
    /\ Cardinality({b \in DOMAIN g_heap.bufs : g_heap.bufs[b].frees = 1}) >= 1
    /\ Cardinality({b \in DOMAIN g_heap.bufs : g_heap.bufs[b].owners # {}}) >= 2
    /\ \E sf \in SFs :
          \E ci \in DOMAIN stats[sf].by_callsite :
              \E ti \in DOMAIN stats[sf].by_callsite[ci].by_type :
                  \E oi \in DOMAIN stats[sf].by_callsite[ci].by_type[ti].by_offset :
                      stats[sf].by_callsite[ci].by_type[ti].by_offset[oi].type_tuples
                          # <<>>

\* ---------------------------------------------------------------------
\* The slot count of the pointer table (hash_true_size).

\* C38: from one allocation of the pointer table to the next, the value
\* hash_true_size computes is the number of slots that were allocated,
\* whatever inserts and deletes happened in between.
C38_TrueSizeFixed == ptr.table => hash_true_size(ptr) = ptr.slots

\* ---------------------------------------------------------------------
\* What lvalue_fetch tells its caller (MVM_ptr_hash_lvalue_fetch).

\* The step is a call of lvalue_fetch(key) that has returned an entry.
PtrFetchedStep(key) ==
    /\ ptr_op'.n = ptr_op.n + 1
    /\ ptr_op'.op = "lvalue_fetch"
    /\ ptr_op'.key = key
    /\ ptr_pc' = "ok"
    /\ PtrUsable(ptr')
    /\ ptr_op'.entry >= 0

\* The table held no entry for key.
PtrAbsent(t, key) == ~t.table \/ MVM_ptr_hash_fetch(t, key) = -1

\* lvalue_fetch(key) on t hands back an entry with the key field NULL
\* exactly if t had no entry for key, with cur_items one higher then and as
\* it was otherwise.
PtrFreshMarked(t, key) ==
    LET r == MVM_ptr_hash_lvalue_fetch(t, key)
        before == IF t.table THEN t.cur_items ELSE 0
    IN  /\ (PtrEntry(r.t, r.entry).key = NullKey) <=> PtrAbsent(t, key)
        /\ r.t.cur_items = before + (IF PtrAbsent(t, key) THEN 1 ELSE 0)

\* C40: for every key, the null pointer included, lvalue_fetch returns an
\* entry whose key field is NULL if and only if the key was absent and a
\* slot was freshly reserved for it, and raises cur_items by exactly 1 in
\* that case and by 0 when the key was present.
C40_FreshIffAbsent ==
    [][\A key \in PtrAllKeys : PtrFetchedStep(key) => PtrFreshMarked(ptr, key)]_vars

\* ---------------------------------------------------------------------
\* The callsite level bounds the type level (MVM_spesh_stats_update, case
\* MVM_SPESH_LOG_ENTRY, and sim_stack_pop).

\* The osr_hits of a sequence of ByTypes, added up.
RECURSIVE SumOsrHits(_)
SumOsrHits(seq) ==
    IF seq = <<>> THEN 0 ELSE seq[1].osr_hits + SumOsrHits(Tail(seq))

\* The hits of ByCallsite css its ByTypes do not account for.
UntypedHits(css) == css.hits - SumHits(css.by_type)

\* UntypedHits of the ByCallsite of callsite cs in the stats ss of a static
\* frame, 0 if there is none.
UntypedHitsOf(ss, cs) ==
    LET S == {c \in DOMAIN ss.by_callsite : ss.by_callsite[c].cs = cs}
    IN  IF S = {} THEN 0
        ELSE UntypedHits(ss.by_callsite[CHOOSE c \in S : TRUE])

\* ByCallsite css bounds its ByTypes.
CallsiteBounds(css) ==
    /\ SumHits(css.by_type) <= css.hits
    /\ SumOsrHits(css.by_type) <= css.osr_hits
    /\ \A ti \in DOMAIN css.by_type :
          css.by_type[ti].max_depth <= css.max_depth

\* C39: in every state, for every ByCallsite the hits of its ByTypes add
\* up to at most its hits, their osr_hits to at most its osr_hits, and no
\* ByType has a max_depth above its max_depth; once an update call has
\* completed, the hits its ByTypes do not account for have grown over the
\* call by the number of frames of the callsite that were popped without
\* a resolved ByType.
C39_CallsiteBoundsTypes ==
    /\ \A sf \in SFs : \A ci \in DOMAIN stats[sf].by_callsite :
          CallsiteBounds(stats[sf].by_callsite[ci])
    /\ Completed =>
          \A sf \in SFs : \A ci \in DOMAIN stats[sf].by_callsite :
              LET css == stats[sf].by_callsite[ci]
              IN  UntypedHits(css) =
                      UntypedHitsOf(stats0[sf], css.cs)
                      + g_popped[<<sf, css.cs, FALSE>>]

\* A second update call completed: a callsite had a frame popped with a
\* resolved ByType in the first and one popped without in the second.
C39_Witness ==
    /\ Completed
    /\ nupd = 2
    /\ \E sf \in SFs : \E ci \in DOMAIN stats[sf].by_callsite :
          LET css == stats[sf].by_callsite[ci]
          IN  /\ SumHits(css.by_type) >= 1
              /\ UntypedHits(css) >= 1
              /\ UntypedHitsOf(stats0[sf], css.cs) = 0
              /\ g_popped[<<sf, css.cs, FALSE>>] >= 1
              /\ SumHits(css.by_type) = css.hits - g_popped[<<sf, css.cs, FALSE>>]

=========================================================================
